---- MODULE Spec2Model ----
(***************************************************************************)
(* A model of the OpenAI-compatible bridging layer of gemini-cli:          *)
(*   - toOpenAIMessages, the message normalizer with its tool-call /       *)
(*     tool-result identifier reconciliation (utils/messages.ts);          *)
(*   - _generateContentStream, the streaming delta accumulator             *)
(*     (providers/openAIChatProvider.ts);                                   *)
(*   - parseSSEStream, the server-sent-event line parser                    *)
(*     (utils/responseAdapters.ts).                                         *)
(* Each component has its own specification (SpecNorm, SpecStream,         *)
(* SpecSSE); the variables of the other components stay at their initial   *)
(* values.                                                                 *)
(***************************************************************************)
EXTENDS Integers, Sequences, FiniteSets, TLC

VARIABLES
    \* ---- toOpenAIMessages ----
    list,                \* the turns of `contents` scanned so far (the input)
    out,                 \* const out: Array<OpenAIOpenMessage | ToolMsg>
    pendingToolCallIds,  \* Map<string, string[]>: per tool name, FIFO of call ids
    allToolCallIds,      \* Set<string>: every declared call id
    usedToolCallIds,     \* Set<string>: every id a tool message was pushed with
    genCount,            \* number of ids genToolCallId has produced
    resolved,            \* history: one record per functionResponse scanned
    normPc               \* "scan": in the for loop; "done": returned

normVars == <<list, out, pendingToolCallIds, allToolCallIds, usedToolCallIds,
              genCount, resolved, normPc>>

VARIABLES
    \* ---- OpenAIChatProvider._generateContentStream ----
    useResponsesApi,     \* this.config.useResponsesApi === true
    streamPc,            \* "start", "streaming" (in the for await), "done",
                         \* "failed" (the generator threw)
    events,              \* history: the parsed SSE events received so far
    toolCallsBuffer,     \* Map<number, {id?, name?, arguments}>, in insertion
                         \* order
    sawFinish,           \* let sawFinish
    yielded              \* the fragments yielded to the caller so far

streamVars == <<useResponsesApi, streamPc, events, toolCallsBuffer, sawFinish,
                yielded>>

VARIABLES
    \* ---- parseSSEStream ----
    sseStream,           \* the bytes the transport will deliver, as characters
    ssePos,              \* how many of them it has delivered
    sseBuffer,           \* let buffer
    sseYielded,          \* the events yielded so far
    ssePc,               \* "reading", "returned" (on the sentinel), "ended"
                         \* (the byte stream is exhausted)
    sseSkipped,          \* history: complete lines stood after the sentinel in
                         \* the chunk that held it
    sseLate              \* history: bytes arrived after the generator returned

sseVars == <<sseStream, ssePos, sseBuffer, sseYielded, ssePc, sseSkipped,
             sseLate>>

VARIABLES
    \* ---- OpenAIChatProvider.generate, under the retry policy ----
    genUseResponses,     \* this.config.useResponsesApi === true
    genBase,             \* this.axios.defaults.baseURL
    genTools,            \* the request supplies tools
    genPc,               \* "idle", "primary" / "fallback" (awaiting that
                         \* request), "resolved", "threw" (generate rejected),
                         \* "rejected" (the error reached the caller)
    genAttempt,          \* number of the current invocation of generate
    genRequests,         \* history: the transport requests issued
    genPrimaryData,      \* response.data
    genChatData,         \* chatResp.data
    genResult,           \* the response returned to the caller
    genError,            \* the error thrown
    genFailures          \* history: the failed transport requests

genVars == <<genUseResponses, genBase, genTools, genPc, genAttempt,
             genRequests, genPrimaryData, genChatData, genResult, genError,
             genFailures>>

VARIABLES
    \* ---- buildCurlCommand ----
    curlUrl,             \* url
    curlHeaders,         \* headersObj: its `common` section and its own
                         \* entries, each in insertion order
    curlBody,            \* bodyObj
    curlKey,             \* the configured API key
    curlOut,             \* the command returned
    curlPc               \* "call", "done"

curlVars == <<curlUrl, curlHeaders, curlBody, curlKey, curlOut, curlPc>>

VARIABLES
    \* ---- two streaming calls on one provider: _generateContentStream ----
    \* Each variable is indexed by the call; the entry of a call stands for
    \* the local of that name in the call's generator frame.
    concPc,              \* "idle", "streaming", "done"
    concEvents,          \* the parsed events the call has received
    concBuffer,          \* const toolCallsBuffer
    concSawFinish,       \* let sawFinish
    concYielded,         \* the fragments the call has yielded
    concOverlap          \* history: a call received a tool-call delta while
                         \* the other call held a buffered entry

concVars == <<concPc, concEvents, concBuffer, concSawFinish, concYielded,
              concOverlap>>

VARIABLES
    \* ---- buildResponsesInputFromMessages ----
    messages,            \* the chat-format messages
    input,               \* const input, as returned
    inputPc              \* "call", "done"

inputVars == <<messages, input, inputPc>>

VARIABLES
    \* ---- buildChatRequestBody, buildResponsesRequestBody ----
    reqConfig,           \* req.config: maxOutputTokens, temperature, topP,
                         \* tools
    bodyMessages,        \* the provider messages handed to the builders
    preferToolName,      \* the tool inferPreferredTool names, "" for none
    stream,              \* the stream argument of buildChatRequestBody
    chatBody,            \* the body buildChatRequestBody returned
    responsesBody        \* the body buildResponsesRequestBody returned

bodyVars == <<reqConfig, bodyMessages, preferToolName, stream, chatBody,
             responsesBody>>

VARIABLES
    \* ---- convertFromResponsesApi: usage accounting ----
    usageRaw,            \* data.usage: absent, or its six count fields
    usageMetadata,       \* response.usageMetadata
    usagePc              \* "call", "done"

usageVars == <<usageRaw, usageMetadata, usagePc>>

VARIABLES
    \* ---- the /hist subcommands ----
    chat,                \* whether getChat() gives a chat
    history,             \* chat.getHistory()
    histCommand,         \* the subcommand run and its args text
    addItemCalls,        \* the texts handed to context.ui.addItem, in order
    setHistoryCalls,     \* the histories handed to client.setHistory
    histReturn           \* the message the action returned, NoMessage for
                         \* none

histVars == <<chat, history, histCommand, addItemCalls, setHistoryCalls,
              histReturn>>

VARIABLES
    \* ---- DebugLogger ----
    debugEnabled,        \* DEBUG_ENABLED
    logStream,           \* this.stream: the number of a stream, 0 for null
    streamFailed,        \* this.streamFailed
    logCalls,            \* history: the calls of log/warn/error/debug, each
                         \* with its level and the resets made before it
    consoleCalls,        \* history: the calls of the console methods
    streamWrites,        \* history: the calls of stream.write
    createCalls,         \* history: the attempts to create the stream
    resets,              \* history: how many times closeStreamForTests ran
    streamErrors         \* history: the 'error' events of the streams, each
                         \* with the calls and resets made before it

logVars == <<debugEnabled, logStream, streamFailed, logCalls, consoleCalls,
             streamWrites, createCalls, resets, streamErrors>>

VARIABLES
    \* ---- hasResponsesToolCalls and convertFromResponsesApi on one response ----
    scanData,            \* response.data of a Responses request
    scanDone,            \* which of the two functions have been applied
    scanHas,             \* what hasResponsesToolCalls returned
    scanParts            \* the parts of what convertFromResponsesApi returned

scanVars == <<scanData, scanDone, scanHas, scanParts>>

VARIABLES
    \* ---- the texts generate and generateStream hand to debugLogger ----
    reqKey,              \* config.apiKey
    reqConfigHeaders,    \* config.headers
    reqHeaders,          \* this.axios.defaults.headers
    reqUrl,              \* url
    reqBody,             \* requestBody
    reqError,            \* the error axios.post rejected with, if it did
    reqLogged,           \* the texts handed to debugLogger.log so far
    reqPc                \* "start", "sent", "responded", "failed"

reqVars == <<reqKey, reqConfigHeaders, reqHeaders, reqUrl, reqBody, reqError,
             reqLogged, reqPc>>

moreVars == <<genVars, curlVars, concVars, inputVars,
             bodyVars,
             usageVars,
             histVars,
             logVars,
             scanVars,
             reqVars>>

vars == <<normVars, streamVars, sseVars, moreVars>>

\* ------------------------------------------------------------------------
\* Bounds of the model

\* Total number of parts (fragments) in the conversation handed to
\* toOpenAIMessages.
MaxParts == 3

\* Number of parsed SSE events one streamed chat call receives.
MaxEvents == 4

\* Number of complete lines in the byte stream handed to parseSSEStream.
MaxLines == 2

\* Maximum attempt count of the retry policy.
MaxAttempts == 2

\* Number of entries in the header map handed to buildCurlCommand.
MaxHeaders == 2

\* Number of parsed SSE events two concurrent streamed calls receive together.
MaxConcEvents == 4

\* Number of messages handed to buildResponsesInputFromMessages.
MaxMessages == 2

\* Largest maximum output token count a caller asks for.
MaxOutputTokens == 2

\* Largest token count a usage field carries as a number.
MaxCount == 1

\* Number of entries in the conversation history the /hist commands see.
MaxHistory == 5

\* Number of calls made on the debug logger (log methods and
\* closeStreamForTests together).
MaxLoggerCalls == 4

\* The longest Responses output, in items, and the longest content of a
\* message item, in items, of the scan model.
MaxItems == 2
MaxContent == 2

\* ------------------------------------------------------------------------
\* Helpers

SeqsUpTo(S, n) == UNION {[1..k -> S] : k \in 0..n}

RECURSIVE SumLens(_)
SumLens(turns) ==
    IF turns = <<>> THEN 0 ELSE Len(Head(turns).parts) + SumLens(Tail(turns))

Range(s) == {s[i] : i \in DOMAIN s}

\* ------------------------------------------------------------------------
\* The caller's conversation (Content[]), messages.ts:61-63, 87-101

\* A missing (undefined) or empty id or name: both are falsy in the code.
NoId == ""
NoName == ""

Names == {"f", "g"}
Ids == {"a1", "a2"}
Roles == {"model", "user"}

TextParts == [kind : {"text"}, name : {NoName}, id : {NoId}, text : {"t"}]
CallParts ==
    [kind : {"functionCall"}, name : Names, id : Ids \cup {NoId}, text : {""}]
ResponseParts ==
    [kind : {"functionResponse"}, name : Names, id : Ids \cup {NoId},
     text : {""}]
Parts == TextParts \cup CallParts \cup ResponseParts

\* The code compares ids and names only for equality, so a conversation is
\* taken up to renaming: the first id it mentions is a1 and the first name f.
RECURSIVE Flatten(_)
Flatten(turns) ==
    IF turns = <<>> THEN <<>> ELSE Head(turns).parts \o Flatten(Tail(turns))

Canonical(ps) ==
    \A i \in DOMAIN ps :
       /\ ps[i].id = "a2" => \E j \in 1..(i - 1) : ps[j].id = "a1"
       /\ ps[i].name = "g" => \E j \in 1..(i - 1) : ps[j].name = "f"

\* messages.ts:88-94: role 'model' -> 'assistant', 'system' -> 'system',
\* anything else -> 'user'.
MapRole(r) == IF r = "model" THEN "assistant"
              ELSE IF r = "system" THEN "system" ELSE "user"

\* messages.ts:97-101: the text parts, empty ones removed, joined by a blank
\* line.
RECURSIVE JoinText(_)
JoinText(parts) ==
    IF parts = <<>> THEN ""
    ELSE LET rest == JoinText(Tail(parts))
             p == Head(parts)
         IN IF p.kind = "text" /\ p.text # ""
            THEN IF rest = "" THEN p.text ELSE p.text \o "\n\n" \o rest
            ELSE rest

\* messages.ts:84-85: a fresh id (name, timestamp and randomness); the n-th
\* generated id of a pass, distinct from every caller id.
genToolCallId(n) == "gen" \o ToString(n)

\* A mutant of ToolCallIdOf: the caller's id is ignored, every call gets a
\* generated one.
ToolCallIdAlwaysGenerated(fc, gen) == genToolCallId(gen + 1)

\* messages.ts:118: const id = fc.id || genToolCallId(name)
ToolCallIdOf(fc, gen) ==
    IF fc.id # NoId THEN fc.id ELSE genToolCallId(gen + 1)

\* messages.ts:103-133: the functionCall parts of one turn, in order. st is
\* [pending, all, gen, tool_calls].
RECURSIVE ScanCalls(_, _, _)
ScanCalls(parts, i, st) ==
    IF i > Len(parts) THEN st
    ELSE
      LET p == parts[i] IN
      IF p.kind # "functionCall" THEN ScanCalls(parts, i + 1, st)
      ELSE
        LET name == p.name
            id == ToolCallIdOf(p, st.gen)
            gen2 == IF id = p.id THEN st.gen ELSE st.gen + 1
            pend2 == IF name # NoName /\ id # NoId
                     THEN [st.pending EXCEPT ![name] = Append(@, id)]
                     ELSE st.pending
        IN ScanCalls(parts, i + 1,
                     [pending |-> pend2,
                      all |-> st.all \cup {id},
                      gen |-> gen2,
                      tool_calls |-> Append(st.tool_calls,
                                            [id |-> id, name |-> name])])

\* messages.ts:135-138
HasFunctionResponse(parts) ==
    \E i \in DOMAIN parts : parts[i].kind = "functionResponse"

\* messages.ts:140-155: the text / assistant message of the turn.
TurnMessage(role, text, tool_calls, hasFR) ==
    IF role = "assistant"
    THEN IF text # "" \/ Len(tool_calls) > 0
         THEN <<[role |-> "assistant", content |-> text,
                 tool_calls |-> tool_calls, tool_call_id |-> NoId,
                 extra_text |-> "", src |-> <<0, 0>>]>>
         ELSE <<>>
    ELSE IF text # "" /\ ~hasFR
         THEN <<[role |-> role, content |-> text, tool_calls |-> <<>>,
                 tool_call_id |-> NoId, extra_text |-> "", src |-> <<0, 0>>]>>
         ELSE <<>>

\* A mutant of ResolveToolCallId: the name queue is consulted first, also for
\* a result whose explicit id is declared.
ResolveToolCallIdQueueFirst(fr, all, pending) ==
    IF fr.name # NoName /\ Len(pending[fr.name]) > 0
    THEN [toolCallId |-> Head(pending[fr.name]),
          pending |-> [pending EXCEPT ![fr.name] = Tail(@)]]
    ELSE [toolCallId |-> fr.id, pending |-> pending]

\* messages.ts:196-205: the id a functionResponse is emitted with: its own id
\* when that id is declared, else the head of its name's queue when there is
\* one, else its own id unchanged (also when that id is unknown).
ResolveToolCallId(fr, all, pending) ==
    IF (fr.id = NoId \/ fr.id \notin all)
       /\ fr.name # NoName /\ Len(pending[fr.name]) > 0
    THEN [toolCallId |-> Head(pending[fr.name]),
          pending |-> [pending EXCEPT ![fr.name] = Tail(@)]]
    ELSE [toolCallId |-> fr.id, pending |-> pending]

\* messages.ts:157-236: the functionResponse parts of one turn, in order. st
\* is [pending, used, out, resolved]; t is the turn's index in the input;
\* extra is the text folded into the tool messages (messages.ts:216-218).
RECURSIVE ScanResults(_, _, _, _, _, _)
ScanResults(parts, i, st, all, t, extra) ==
    IF i > Len(parts) THEN st
    ELSE
      LET p == parts[i] IN
      IF p.kind # "functionResponse"
      THEN ScanResults(parts, i + 1, st, all, t, extra)
      ELSE
        LET r == ResolveToolCallId(p, all, st.pending)
            entry == [src |-> <<t, i>>, id |-> p.id, name |-> p.name,
                      declared |-> p.id # NoId /\ p.id \in all,
                      queue |-> IF p.name = NoName THEN <<>>
                                ELSE st.pending[p.name],
                      toolCallId |-> r.toolCallId]
        IN IF r.toolCallId = NoId
           THEN ScanResults(parts, i + 1,
                            [st EXCEPT !.resolved = Append(@, entry)],
                            all, t, extra)
           ELSE ScanResults(parts, i + 1,
                  [pending |-> r.pending,
                   used |-> st.used \cup {r.toolCallId},
                   out |-> Append(st.out,
                             [role |-> "tool", content |-> "",
                              tool_calls |-> <<>>,
                              tool_call_id |-> r.toolCallId,
                              extra_text |-> extra, src |-> <<t, i>>]),
                   resolved |-> Append(st.resolved, entry)],
                  all, t, extra)

\* messages.ts:239-257: drop the tool calls no tool message was pushed for,
\* when there are more declared ids than used ones.
PruneUnmatchedCalls(o, all, used) ==
    IF Cardinality(all) > Cardinality(used)
    THEN [i \in DOMAIN o |->
            IF o[i].role = "assistant"
            THEN [o[i] EXCEPT !.tool_calls =
                    SelectSeq(@, LAMBDA tc : tc.id \in used \/ tc.id \notin all)]
            ELSE o[i]]
    ELSE o

\* A mutant of PruneToolMessages: the last loop of the function is left out.
PruneToolMessagesNone(o, all) == o

\* messages.ts:259-267: drop the tool messages whose id was never declared.
PruneToolMessages(o, all) ==
    SelectSeq(o, LAMBDA m : ~(m.role = "tool"
                              /\ (m.tool_call_id = NoId
                                  \/ m.tool_call_id \notin all)))

\* ------------------------------------------------------------------------
\* toOpenAIMessages as a state machine: one step per turn of the for loop
\* (messages.ts:87-237), then the two pruning passes and the return.

IdleStream ==
    /\ useResponsesApi = FALSE
    /\ streamPc = "start"
    /\ events = <<>>
    /\ toolCallsBuffer = <<>>
    /\ sawFinish = FALSE
    /\ yielded = <<>>

IdleNorm ==
    /\ list = <<>>
    /\ out = <<>>
    /\ pendingToolCallIds = [n \in Names |-> <<>>]
    /\ allToolCallIds = {}
    /\ usedToolCallIds = {}
    /\ genCount = 0
    /\ resolved = <<>>
    /\ normPc = "scan"

IdleSSE ==
    /\ sseStream = <<>>
    /\ ssePos = 0
    /\ sseBuffer = <<>>
    /\ sseYielded = <<>>
    /\ ssePc = "reading"
    /\ sseSkipped = FALSE
    /\ sseLate = FALSE

\* No transport response, no response returned, no error.
NoData == [kind |-> "none", output |-> <<>>, content |-> "",
           tool_calls |-> <<>>, finish_reason |-> ""]
NoResponse == [parts |-> <<>>, finishReason |-> "", ev |-> -1]
NoError == [code |-> "", message |-> <<>>, status |-> 0]

IdleGen ==
    /\ genUseResponses = FALSE
    /\ genBase = ""
    /\ genTools = FALSE
    /\ genPc = "idle"
    /\ genAttempt = 0
    /\ genRequests = <<>>
    /\ genPrimaryData = NoData
    /\ genChatData = NoData
    /\ genResult = NoResponse
    /\ genError = NoError
    /\ genFailures = <<>>

NoCommand == [url |-> "", headerLines |-> <<>>, body |-> ""]

IdleCurl ==
    /\ curlUrl = ""
    /\ curlHeaders = [common |-> <<>>, own |-> <<>>]
    /\ curlBody = ""
    /\ curlKey = ""
    /\ curlOut = NoCommand
    /\ curlPc = "call"

\* The two calls in flight on the provider.
Calls == {1, 2}

IdleConc ==
    /\ concPc = [c \in Calls |-> "idle"]
    /\ concEvents = [c \in Calls |-> <<>>]
    /\ concBuffer = [c \in Calls |-> <<>>]
    /\ concSawFinish = [c \in Calls |-> FALSE]
    /\ concYielded = [c \in Calls |-> <<>>]
    /\ concOverlap = FALSE

IdleInput ==
    /\ messages = <<>>
    /\ input = <<>>
    /\ inputPc = "call"

\* A field that may be undefined: a number, or the list of tools.
Undefined == [defined |-> FALSE, value |-> 0]
Num(n) == [defined |-> TRUE, value |-> n]
NoTools == [defined |-> FALSE, fns |-> <<>>]

\* No body built yet.
NoBody == [kind |-> "none"]

IdleBody ==
    /\ reqConfig = [maxOutputTokens |-> Undefined, temperature |-> Undefined,
                    topP |-> Undefined, tools |-> NoTools]
    /\ bodyMessages = <<>>
    /\ preferToolName = ""
    /\ stream = FALSE
    /\ chatBody = NoBody
    /\ responsesBody = NoBody

\* A JSON value of a usage field, by its type: "undefined" (the field is
\* absent), "null", "number" (finite, n), "nonfinite" (NaN, an infinity),
\* "string" (its characters in chars) and "other" (a boolean, an object).
Value(type, n, chars) == [type |-> type, n |-> n, chars |-> chars]
UndefinedValue == Value("undefined", 0, <<>>)

NoUsage ==
    [present |-> FALSE,
     input_token_count |-> UndefinedValue, input_tokens |-> UndefinedValue,
     output_token_count |-> UndefinedValue, output_tokens |-> UndefinedValue,
     total_token_count |-> UndefinedValue, total_tokens |-> UndefinedValue]

\* usageMetadata undefined
NoUsageMetadata ==
    [defined |-> FALSE, promptTokenCount |-> 0, candidatesTokenCount |-> 0,
     totalTokenCount |-> 0]

IdleUsage ==
    /\ usageRaw = NoUsage
    /\ usageMetadata = NoUsageMetadata
    /\ usagePc = "call"

\* No subcommand run; no message returned.
NoCommandRun == [name |-> "", args |-> <<>>]
NoMessage == [messageType |-> "", content |-> ""]

IdleHist ==
    /\ chat = FALSE
    /\ history = <<>>
    /\ histCommand = NoCommandRun
    /\ addItemCalls = <<>>
    /\ setHistoryCalls = <<>>
    /\ histReturn = NoMessage

\* this.stream = null
NoStream == 0

IdleLog ==
    /\ debugEnabled = FALSE
    /\ logStream = NoStream
    /\ streamFailed = FALSE
    /\ logCalls = <<>>
    /\ consoleCalls = <<>>
    /\ streamWrites = <<>>
    /\ createCalls = <<>>
    /\ resets = 0
    /\ streamErrors = <<>>

IdleScan ==
    /\ scanData = NoData
    /\ scanDone = {}
    /\ scanHas = FALSE
    /\ scanParts = <<>>

NoRequestError == [status |-> "", data |-> ""]

IdleReq ==
    /\ reqKey = ""
    /\ reqConfigHeaders = <<>>
    /\ reqHeaders = [common |-> <<>>, own |-> <<>>]
    /\ reqUrl = ""
    /\ reqBody = ""
    /\ reqError = NoRequestError
    /\ reqLogged = <<>>
    /\ reqPc = "start"

IdleMore == IdleGen /\ IdleCurl /\ IdleConc /\ IdleInput /\ IdleBody /\ IdleUsage /\ IdleHist /\ IdleLog /\ IdleScan /\ IdleReq

InitNorm == IdleNorm /\ IdleStream /\ IdleSSE /\ IdleMore

ScanTurn(c) ==
    /\ normPc = "scan"
    /\ LET role == MapRole(c.role)
           text == JoinText(c.parts)
           hasFR == HasFunctionResponse(c.parts)
           t == Len(list) + 1
           cs == ScanCalls(c.parts, 1,
                           [pending |-> pendingToolCallIds,
                            all |-> allToolCallIds,
                            gen |-> genCount, tool_calls |-> <<>>])
           extra == IF role # "assistant" /\ hasFR THEN text ELSE ""
           rs == ScanResults(c.parts, 1,
                             [pending |-> cs.pending, used |-> usedToolCallIds,
                              out |-> out \o TurnMessage(role, text,
                                                         cs.tool_calls, hasFR),
                              resolved |-> resolved],
                             cs.all, t, extra)
       IN /\ list' = Append(list, c)
          /\ out' = rs.out
          /\ pendingToolCallIds' = rs.pending
          /\ allToolCallIds' = cs.all
          /\ usedToolCallIds' = rs.used
          /\ genCount' = cs.gen
          /\ resolved' = rs.resolved
    /\ UNCHANGED normPc

Return ==
    /\ normPc = "scan"
    /\ out' = PruneToolMessages(
                 PruneUnmatchedCalls(out, allToolCallIds, usedToolCallIds),
                 allToolCallIds)
    /\ normPc' = "done"
    /\ UNCHANGED <<list, pendingToolCallIds, allToolCallIds, usedToolCallIds,
                   genCount, resolved>>

NextNorm ==
    \/ \E r \in Roles :
         \E ps \in SeqsUpTo(Parts, MaxParts - SumLens(list)) \ {<<>>} :
           /\ Canonical(Flatten(list) \o ps)
           /\ ScanTurn([role |-> r, parts |-> ps])
           /\ UNCHANGED <<streamVars, sseVars, moreVars>>
    \/ Return /\ UNCHANGED <<streamVars, sseVars, moreVars>>

SpecNorm == InitNorm /\ [][NextNorm]_vars

\* ------------------------------------------------------------------------
\* What the claims about toOpenAIMessages speak of

\* The tool-call entries of the returned sequence, over all assistant
\* messages, in order.
RECURSIVE OutCalls(_)
OutCalls(o) ==
    IF o = <<>> THEN <<>>
    ELSE (IF Head(o).role = "assistant" THEN Head(o).tool_calls ELSE <<>>)
         \o OutCalls(Tail(o))

\* The tool messages of the returned sequence, in order.
OutToolMsgs(o) == SelectSeq(o, LAMBDA m : m.role = "tool")

IdsOf(s) == [i \in DOMAIN s |-> s[i].id]
ToolCallIdsOf(s) == [i \in DOMAIN s |-> s[i].tool_call_id]

\* The functionCall and the functionResponse parts of the input, in order.
InCalls(turns) == SelectSeq(Flatten(turns), LAMBDA p : p.kind = "functionCall")
InResponses(turns) ==
    SelectSeq(Flatten(turns), LAMBDA p : p.kind = "functionResponse")

\* The tool messages of the output made from the functionResponse at src.
ToolMsgsFrom(o, src) ==
    {i \in DOMAIN o : o[i].role = "tool" /\ o[i].src = src}


\* Every functionCall part of the conversation is in a model turn (a tool
\* call is emitted by the model).
CallsByModel(turns) ==
    \A t \in DOMAIN turns :
       (\E i \in DOMAIN turns[t].parts :
           turns[t].parts[i].kind = "functionCall") => turns[t].role = "model"

\* ------------------------------------------------------------------------
\* Claims about toOpenAIMessages (all taken over conversations whose tool
\* calls are made in model turns)

\* C1 (as claimed): in the returned sequence the number of tool-call entries
\* equals the number of tool messages, and every tool message's tool_call_id
\* is the id of exactly one tool-call entry and every tool-call entry's id is
\* the tool_call_id of exactly one tool message.
C1_CallsMatchResults ==
    (normPc = "done" /\ CallsByModel(list)) =>
      LET calls == OutCalls(out)
          tools == OutToolMsgs(out)
      IN /\ Len(calls) = Len(tools)
         /\ \A i \in DOMAIN tools :
              Cardinality({k \in DOMAIN calls :
                             calls[k].id = tools[i].tool_call_id}) = 1
         /\ \A k \in DOMAIN calls :
              Cardinality({i \in DOMAIN tools :
                             tools[i].tool_call_id = calls[k].id}) = 1

\* C2 (as claimed): in the returned sequence every tool message comes after an
\* assistant message whose tool_calls holds an entry with the same id.
C2_ResultAfterItsCall ==
    (normPc = "done" /\ CallsByModel(list)) =>
      \A i \in DOMAIN out :
         out[i].role = "tool" =>
           \E j \in 1..(i - 1) :
              /\ out[j].role = "assistant"
              /\ \E k \in DOMAIN out[j].tool_calls :
                    out[j].tool_calls[k].id = out[i].tool_call_id

\* A functionResponse whose own id is an id no call of the conversation
\* declares.
Orphan(e) == e.id # NoId /\ e.id \notin allToolCallIds

\* C3 (as claimed): a tool result whose identifier matches no declared call
\* yields no tool message in the returned sequence.
C3_OrphanResultDropped ==
    normPc = "done" =>
      \A n \in DOMAIN resolved :
         Orphan(resolved[n]) => ToolMsgsFrom(out, resolved[n].src) = {}

\* C3 (amended): a tool result whose identifier matches no declared call
\* yields no tool message when no call id is pending for its tool name at the
\* time it is scanned; when one is pending, it yields exactly one tool
\* message, carrying the oldest pending id of that name.
C3_OrphanDroppedOrRebound ==
    normPc = "done" =>
      \A n \in DOMAIN resolved :
         LET e == resolved[n] IN
         Orphan(e) =>
           IF e.queue = <<>>
           THEN ToolMsgsFrom(out, e.src) = {}
           ELSE /\ Cardinality(ToolMsgsFrom(out, e.src)) = 1
                /\ \A i \in ToolMsgsFrom(out, e.src) :
                      out[i].tool_call_id = Head(e.queue)

\* C3 witness: the pass has returned, an orphan result was pushed under its own
\* unknown id during the scan, and the returned sequence, which still holds
\* an assistant tool call, has no tool message for it.
C3_Witness ==
    /\ normPc = "done"
    /\ OutCalls(out) # <<>>
    /\ \E n \in DOMAIN resolved :
          /\ Orphan(resolved[n])
          /\ resolved[n].queue = <<>>
          /\ resolved[n].toolCallId = resolved[n].id
          /\ ToolMsgsFrom(out, resolved[n].src) = {}

\* C4 (as claimed): each functionResponse is resolved to its own id when an
\* earlier call declared that id, else to the oldest id pending for its tool
\* name, else it is dropped: the returned sequence holds a tool message for
\* it exactly when one of the first two cases applies, carrying that id.
C4_ResolutionOrder ==
    normPc = "done" =>
      \A n \in DOMAIN resolved :
         LET e == resolved[n]
             expected == IF e.declared THEN e.id
                         ELSE IF e.queue # <<>> THEN Head(e.queue) ELSE NoId
         IN IF expected = NoId
            THEN ToolMsgsFrom(out, e.src) = {}
            ELSE \E i \in ToolMsgsFrom(out, e.src) :
                    out[i].tool_call_id = expected

\* A well-formed conversation: every tool call is made in a model turn and
\* carries its own distinct caller-supplied id, and is followed, in a later
\* turn, by exactly one tool result carrying that id; there is no other tool
\* result.
CallsOfTurn(c) == SelectSeq(c.parts, LAMBDA p : p.kind = "functionCall")
ResponsesOfTurn(c) == SelectSeq(c.parts, LAMBDA p : p.kind = "functionResponse")

WellFormed(turns) ==
    LET calls == InCalls(turns)
        resps == InResponses(turns)
    IN /\ CallsByModel(turns)
       /\ \A i \in DOMAIN calls : calls[i].id # NoId
       /\ \A i, j \in DOMAIN calls : i # j => calls[i].id # calls[j].id
       /\ \A i \in DOMAIN calls :
            Cardinality({j \in DOMAIN resps : resps[j].id = calls[i].id}) = 1
       /\ \A t \in DOMAIN turns :
            \A r \in Range(ResponsesOfTurn(turns[t])) :
               /\ r.id # NoId
               /\ \E u \in 1..(t - 1) :
                     \E c \in Range(CallsOfTurn(turns[u])) : c.id = r.id

Trim(s) ==
    LET nb == {i \in DOMAIN s : s[i] # " "}
    IN IF nb = {} THEN <<>>
       ELSE LET lo == CHOOSE i \in nb : \A j \in nb : i <= j
                hi == CHOOSE i \in nb : \A j \in nb : j <= i
            IN SubSeq(s, lo, hi)

\* buf.arguments.trim().endsWith('}')
EndsWithBrace(s) == LET t == Trim(s) IN t # <<>> /\ t[Len(t)] = "}"

StripBlanks(s) == SelectSeq(s, LAMBDA c : c # " ")

RECURSIVE Depth(_, _)
Depth(s, n) ==
    IF n = 0 THEN 0
    ELSE Depth(s, n - 1)
         + (IF s[n] = "{" THEN 1 ELSE IF s[n] = "}" THEN -1 ELSE 0)

\* JSON.parse(s) does not throw: s is one object, its braces balanced.
IsJSON(s) ==
    LET t == StripBlanks(s)
    IN /\ Len(t) >= 2
       /\ t[1] = "{"
       /\ \A n \in DOMAIN t : t[n] \in {"{", "}"}
       /\ Depth(t, Len(t)) = 0
       /\ \A n \in 1..(Len(t) - 1) : Depth(t, n) >= 1

\* The value JSON.parse(s) returns, for a text it accepts: the object, written
\* without blanks.
JSONParse(s) == StripBlanks(s)

\* The value {}.
EmptyObject == <<"{", "}">>

\* ------------------------------------------------------------------------
\* The streamed chat path: openAIChatProvider.ts:252-345 (the same loop is in
\* openAICompatibleContentGenerator.ts:579-664 and part_001:1442-1535)

Indices == {0, 1}
ArgFragments == {<<"{">>, <<"}">>, <<"{", "}">>}
FinishReasons == {"stop", "length", "tool_calls", "content_filter"}

\* The first delta of a tool call carries its id and name, the following ones
\* a fragment of its argument text.
ToolCallDeltas ==
    {[index |-> i, id |-> "call" \o ToString(i), name |-> "n",
      arguments |-> <<>>] : i \in Indices}
    \cup {[index |-> i, id |-> "", name |-> "", arguments |-> f] :
            i \in Indices, f \in ArgFragments}

\* A parsed event: choices[0].delta.content, choices[0].delta.tool_calls and
\* choices[0].finish_reason ("" when absent). The handler treats the three in
\* turn and independently, so an event carrying several of them acts as the
\* events carrying one each, in that order.
Events ==
    {[content |-> "x", tool_calls |-> <<>>, finish |-> ""]}
    \cup {[content |-> "", tool_calls |-> <<tc>>, finish |-> ""] :
            tc \in ToolCallDeltas}
    \cup {[content |-> "", tool_calls |-> <<>>, finish |-> r] :
            r \in FinishReasons}

NoFinish == ""

TextPart(text) ==
    [kind |-> "text", text |-> text, name |-> "", args |-> <<>>, id |-> "",
     idx |-> -1]

\* { functionCall: { name, args, id } }; idx records the buffer index the call
\* was accumulated under.
FunctionCallPart(name, args, id, idx) ==
    [kind |-> "functionCall", text |-> "", name |-> name, args |-> args,
     id |-> id, idx |-> idx]

\* new OpenAIGenerateContentResponse(candidates); ev is the number of the
\* event the fragment was made from (0: none).
Fragment(parts, finishReason, ev) ==
    [parts |-> parts, finishReason |-> finishReason, ev |-> ev]

\* A mutant of BufGet: the buffer is not keyed, the entry inserted first is
\* returned for every index.
BufGetUnkeyed(buffer, idx) ==
    IF buffer # <<>>
    THEN [buffer[1] EXCEPT !.idx = idx]
    ELSE [idx |-> idx, id |-> "", name |-> "", arguments |-> <<>>]

\* toolCallsBuffer.get(idx) || { arguments: '' }
BufGet(buffer, idx) ==
    IF \E i \in DOMAIN buffer : buffer[i].idx = idx
    THEN buffer[CHOOSE i \in DOMAIN buffer : buffer[i].idx = idx]
    ELSE [idx |-> idx, id |-> "", name |-> "", arguments |-> <<>>]

\* toolCallsBuffer.set(idx, buf): a present key keeps its place.
BufSet(buffer, buf) ==
    IF \E i \in DOMAIN buffer : buffer[i].idx = buf.idx
    THEN [i \in DOMAIN buffer |->
            IF buffer[i].idx = buf.idx THEN buf ELSE buffer[i]]
    ELSE Append(buffer, buf)

\* toolCallsBuffer.delete(idx)
BufDelete(buffer, idx) == SelectSeq(buffer, LAMBDA b : b.idx # idx)

\* A mutant of AppendArguments: the fragment replaces the accumulated text.
AppendArgumentsOverwrite(arguments, fragment) == fragment

\* openAIChatProvider.ts:280: buf.arguments += tc.function.arguments
AppendArguments(arguments, fragment) == arguments \o fragment

\* openAIChatProvider.ts:276-281: one tool-call delta merged into its entry.
MergeDelta(buffer, tc) ==
    LET b0 == BufGet(buffer, tc.index)
        b1 == IF tc.id # "" THEN [b0 EXCEPT !.id = tc.id] ELSE b0
        b2 == IF tc.name # "" THEN [b1 EXCEPT !.name = tc.name] ELSE b1
    IN IF tc.arguments # <<>>
       THEN [b2 EXCEPT !.arguments = AppendArguments(@, tc.arguments)]
       ELSE b2

\* openAIChatProvider.ts:285, 315: buf.name || 'tool'
NameOrTool(name) == IF name # "" THEN name ELSE "tool"

\* openAIChatProvider.ts:274-299: the tool_calls of one delta, in order. st is
\* [buffer, yielded]; n is the number of the event.
RECURSIVE HandleToolCalls(_, _, _, _)
HandleToolCalls(tcs, i, st, n) ==
    IF i > Len(tcs) THEN st
    ELSE
      LET buf == MergeDelta(st.buffer, tcs[i])
          set == BufSet(st.buffer, buf)
      IN IF EndsWithBrace(buf.arguments) /\ IsJSON(buf.arguments)
         THEN HandleToolCalls(tcs, i + 1,
                [buffer |-> BufDelete(set, buf.idx),
                 yielded |-> Append(st.yielded,
                    Fragment(<<FunctionCallPart(NameOrTool(buf.name),
                                                JSONParse(buf.arguments),
                                                buf.id, buf.idx)>>,
                             NoFinish, n))], n)
         ELSE HandleToolCalls(tcs, i + 1,
                [buffer |-> set, yielded |-> st.yielded], n)

\* openAIChatProvider.ts:303-310
MapFinishReason(finish) ==
    IF finish = "stop" THEN "STOP"
    ELSE IF finish = "length" THEN "MAX_TOKENS"
    ELSE IF finish = "tool_calls" \/ finish = "function_call" THEN "STOP"
    ELSE "OTHER"

\* openAIChatProvider.ts:311-323: the entries still buffered when a finish
\* signal arrives. An entry with an empty text is emitted with {} and
\* deleted, one whose text parses is emitted with the parsed value and
\* deleted, one whose text does not parse is neither emitted nor deleted
\* (the catch ignores it). The result is [parts, buffer].
RECURSIVE FlushAtFinish(_, _)
FlushAtFinish(buffer, acc) ==
    IF buffer = <<>> THEN acc
    ELSE LET b == Head(buffer) IN
         IF b.arguments = <<>> \/ IsJSON(b.arguments)
         THEN FlushAtFinish(Tail(buffer),
                [acc EXCEPT !.parts = Append(@,
                   FunctionCallPart(NameOrTool(b.name),
                                    IF b.arguments = <<>> THEN EmptyObject
                                    ELSE JSONParse(b.arguments),
                                    b.id, b.idx))])
         ELSE FlushAtFinish(Tail(buffer),
                [acc EXCEPT !.buffer = Append(@, b)])

\* A mutant of HandleEvent: the text fragment is put ahead of the fragments
\* yielded before it.
HandleEventTextAhead(e, st, n) ==
    LET y1 == IF e.content # ""
              THEN <<Fragment(<<TextPart(e.content)>>, NoFinish, n)>>
                   \o st.yielded
              ELSE st.yielded
        t == HandleToolCalls(e.tool_calls, 1,
                             [buffer |-> st.buffer, yielded |-> y1], n)
    IN IF e.finish # ""
       THEN LET f == FlushAtFinish(t.buffer, [parts |-> <<>>, buffer |-> <<>>])
            IN [buffer |-> f.buffer, sawFinish |-> TRUE,
                yielded |-> Append(t.yielded,
                              Fragment(f.parts, MapFinishReason(e.finish), n))]
       ELSE [buffer |-> t.buffer, sawFinish |-> st.sawFinish,
             yielded |-> t.yielded]

\* openAIChatProvider.ts:252-333: the body of the for await, for one event.
\* st is [buffer, sawFinish, yielded].
HandleEvent(e, st, n) ==
    LET y1 == IF e.content # ""
              THEN Append(st.yielded,
                          Fragment(<<TextPart(e.content)>>, NoFinish, n))
              ELSE st.yielded
        t == HandleToolCalls(e.tool_calls, 1,
                             [buffer |-> st.buffer, yielded |-> y1], n)
    IN IF e.finish # ""
       THEN LET f == FlushAtFinish(t.buffer, [parts |-> <<>>, buffer |-> <<>>])
            IN [buffer |-> f.buffer, sawFinish |-> TRUE,
                yielded |-> Append(t.yielded,
                              Fragment(f.parts, MapFinishReason(e.finish), n))]
       ELSE [buffer |-> t.buffer, sawFinish |-> st.sawFinish,
             yielded |-> t.yielded]

\* A mutant of SynthTerminal: the fragment is left out.
SynthTerminalNone(saw) == <<>>

\* openAIChatProvider.ts:335-344: after the loop, the terminal fragment that
\* is synthesized when no finish signal was seen.
SynthTerminal(saw) ==
    IF ~saw THEN <<Fragment(<<>>, "STOP", 0)>> ELSE <<>>

\* ------------------------------------------------------------------------
\* The Responses path of the stream: openAIChatProvider.ts:208-228, and
\* convertFromResponsesApi, responseAdapters.ts:58-140, 153-166

ResponseItem(type, text, name, call_id, arguments, content) ==
    [type |-> type, text |-> text, name |-> name, call_id |-> call_id,
     arguments |-> arguments, content |-> content]

ResponsesOutputs ==
    { <<>>,
      <<ResponseItem("output_text", "x", "", "", <<>>, <<>>)>>,
      <<ResponseItem("function_call", "", "n", "call0", <<"{", "}">>, <<>>)>>,
      <<ResponseItem("message", "", "", "", <<>>,
          <<ResponseItem("output_text", "x", "", "", <<>>, <<>>),
            ResponseItem("tool_call", "", "", "call1", <<"{">>, <<>>)>>)>> }

\* responseAdapters.ts:153-166: a missing name becomes 'tool'; arguments that
\* do not parse become {}.
ParseResponsesFunctionCall(item) ==
    FunctionCallPart(NameOrTool(item.name),
                     IF IsJSON(item.arguments) THEN JSONParse(item.arguments)
                     ELSE EmptyObject,
                     item.call_id, -1)

\* responseAdapters.ts:65-86, for the items of one array (the output, or the
\* content of a message item).
RECURSIVE ResponsesParts(_, _)
ResponsesParts(items, nested) ==
    IF items = <<>> THEN <<>>
    ELSE LET it == Head(items)
             here ==
               IF it.type = "output_text"
               THEN IF it.text # "" THEN <<TextPart(it.text)>> ELSE <<>>
               ELSE IF it.type = "message" /\ ~nested
               THEN ResponsesParts(it.content, TRUE)
               ELSE IF it.type = "tool_call" \/ it.type = "function_call"
               THEN <<ParseResponsesFunctionCall(it)>>
               ELSE <<>>
         IN here \o ResponsesParts(Tail(items), nested)

\* responseAdapters.ts:103-109: the finish reason is always STOP.
ConvertFromResponsesApi(output) ==
    Fragment(ResponsesParts(output, FALSE), "STOP", 0)

\* ------------------------------------------------------------------------
\* _generateContentStream as a state machine

InitStream ==
    /\ useResponsesApi \in BOOLEAN
    /\ streamPc = "start"
    /\ events = <<>>
    /\ toolCallsBuffer = <<>>
    /\ sawFinish = FALSE
    /\ yielded = <<>>
    /\ IdleNorm
    /\ IdleSSE
    /\ IdleMore

\* openAIChatProvider.ts:216-223: the Responses request returns; its single
\* response is converted, yielded, and the generator returns.
PostResponses(output) ==
    /\ streamPc = "start"
    /\ useResponsesApi
    /\ yielded' = Append(yielded, ConvertFromResponsesApi(output))
    /\ streamPc' = "done"
    /\ UNCHANGED <<useResponsesApi, events, toolCallsBuffer, sawFinish>>

\* openAIChatProvider.ts:242-246: the chat request returns its stream.
PostChat ==
    /\ streamPc = "start"
    /\ ~useResponsesApi
    /\ streamPc' = "streaming"
    /\ UNCHANGED <<useResponsesApi, events, toolCallsBuffer, sawFinish,
                   yielded>>

\* openAIChatProvider.ts:224-227, 247-250: axios.post rejects; the error is
\* logged and rethrown.
RequestFails ==
    /\ streamPc = "start"
    /\ streamPc' = "failed"
    /\ UNCHANGED <<useResponsesApi, events, toolCallsBuffer, sawFinish,
                   yielded>>

\* openAIChatProvider.ts:252-333: parseSSEStream delivers the next event.
ReceiveEvent(e) ==
    /\ streamPc = "streaming"
    /\ Len(events) < MaxEvents
    /\ LET r == HandleEvent(e, [buffer |-> toolCallsBuffer,
                                sawFinish |-> sawFinish,
                                yielded |-> yielded], Len(events) + 1)
       IN /\ toolCallsBuffer' = r.buffer
          /\ sawFinish' = r.sawFinish
          /\ yielded' = r.yielded
    /\ events' = Append(events, e)
    /\ UNCHANGED <<useResponsesApi, streamPc>>

\* openAIChatProvider.ts:335-345: parseSSEStream is exhausted (it returned on
\* the [DONE] sentinel, or the byte stream ended); the loop is left.
EndOfEvents ==
    /\ streamPc = "streaming"
    /\ yielded' = yielded \o SynthTerminal(sawFinish)
    /\ streamPc' = "done"
    /\ UNCHANGED <<useResponsesApi, events, toolCallsBuffer, sawFinish>>

\* The for await throws: the transport fails in the middle of the stream.
StreamFails ==
    /\ streamPc = "streaming"
    /\ streamPc' = "failed"
    /\ UNCHANGED <<useResponsesApi, events, toolCallsBuffer, sawFinish,
                   yielded>>

NextStream ==
    \/ (\E o \in ResponsesOutputs : PostResponses(o))
         /\ UNCHANGED <<normVars, sseVars, moreVars>>
    \/ PostChat /\ UNCHANGED <<normVars, sseVars, moreVars>>
    \/ RequestFails /\ UNCHANGED <<normVars, sseVars, moreVars>>
    \/ (\E e \in Events : ReceiveEvent(e)) /\ UNCHANGED <<normVars, sseVars, moreVars>>
    \/ EndOfEvents /\ UNCHANGED <<normVars, sseVars, moreVars>>
    \/ StreamFails /\ UNCHANGED <<normVars, sseVars, moreVars>>

SpecStream == InitStream /\ [][NextStream]_vars


\* ------------------------------------------------------------------------
\* parseSSEStream: responseAdapters.ts:174-199 (the same generator is in
\* openAICompatibleContentGenerator.ts:169-194)

Newline == "\n"
DataPrefix == <<"d", "a", "t", "a", ":", " ">>
Sentinel == <<"[", "D", "O", "N", "E", "]">>
Digits == {"1", "2"}
Quote == "\""

\* The lines of the streams: two events, a data line whose payload is not
\* JSON, the sentinel, the sentinel followed by a blank, an empty line (a
\* line without the prefix).
LineTexts ==
    { DataPrefix \o <<"1">>, DataPrefix \o <<"2">>, DataPrefix \o <<"x">>,
      DataPrefix \o Sentinel, DataPrefix \o Sentinel \o <<" ">>, <<>> }

\* What may follow the last newline: nothing, or a line that is never ended.
TailTexts == { <<>>, DataPrefix \o <<"1">>, DataPrefix \o Sentinel }

RECURSIVE JoinLines(_)
JoinLines(ls) ==
    IF ls = <<>> THEN <<>>
    ELSE Head(ls) \o <<Newline>> \o JoinLines(Tail(ls))

Streams ==
    {JoinLines(ls) \o t : ls \in SeqsUpTo(LineTexts, MaxLines), t \in TailTexts}

\* buffer.split('\n') followed by lines.pop(): the complete lines of the text
\* and the rest after the last newline.
RECURSIVE SplitLines(_, _, _)
SplitLines(text, i, acc) ==
    IF i > Len(text) THEN acc
    ELSE IF text[i] = Newline
    THEN SplitLines(text, i + 1,
                    [lines |-> Append(acc.lines, acc.rest), rest |-> <<>>])
    ELSE SplitLines(text, i + 1, [acc EXCEPT !.rest = Append(@, text[i])])

\* line.startsWith(prefix)
StartsWith(line, prefix) ==
    Len(line) >= Len(prefix) /\ SubSeq(line, 1, Len(prefix)) = prefix

\* line.slice(6).trim()
DataOf(line) == Trim(SubSeq(line, Len(DataPrefix) + 1, Len(line)))

\* JSON.parse(data) does not throw; the payloads of the model are numbers
\* and strings without escapes.
PayloadParses(data) ==
    \/ data # <<>> /\ \A n \in DOMAIN data : data[n] \in Digits
    \/ /\ Len(data) >= 2
       /\ data[1] = Quote /\ data[Len(data)] = Quote
       /\ \A n \in 2..(Len(data) - 1) : data[n] # Quote

\* A mutant of OnMalformed: the line that does not parse ends the sequence.
OnMalformedReturns(st) == [st EXCEPT !.returned = TRUE]

\* responseAdapters.ts:193-195: catch { ignore malformed chunks }
OnMalformed(st) == st

\* A mutant of OnSentinel: the sentinel line is passed over like any line
\* that is not an event.
OnSentinelPassedOver(st, more) == st

\* responseAdapters.ts:187-189: if (data === '[DONE]') return; more tells
\* whether complete lines stand after the sentinel in this chunk.
OnSentinel(st, more) == [st EXCEPT !.returned = TRUE, !.skipped = more]

\* responseAdapters.ts:184-197: the complete lines of one chunk, in order. st
\* is [yielded, returned, skipped].
RECURSIVE ProcessLines(_, _, _)
ProcessLines(lines, i, st) ==
    IF i > Len(lines) \/ st.returned THEN st
    ELSE IF StartsWith(lines[i], DataPrefix)
    THEN LET data == DataOf(lines[i]) IN
         IF data = Sentinel
         THEN ProcessLines(lines, i + 1, OnSentinel(st, i < Len(lines)))
         ELSE IF PayloadParses(data)
         THEN ProcessLines(lines, i + 1,
                           [st EXCEPT !.yielded = Append(@, data)])
         ELSE ProcessLines(lines, i + 1, OnMalformed(st))
    ELSE ProcessLines(lines, i + 1, st)

\* The two bytes of the UTF-8 encoding of U+00E9, the character they encode,
\* and the replacement character the decoder writes for a byte sequence that
\* is not well formed.
LeadByte == "C3"
ContinuationByte == "A9"
EAcute == "U+00E9"
Replacement == "U+FFFD"

\* responseAdapters.ts:180: chunk.toString(), the UTF-8 decoding of the bytes
\* of one chunk, on its own: a lead byte without its continuation byte (cut
\* off by the end of the chunk) and a continuation byte without its lead
\* byte each become a replacement character. The other bytes of the model
\* are ASCII and decode to themselves.
RECURSIVE ChunkToString(_)
ChunkToString(bytes) ==
    IF bytes = <<>> THEN <<>>
    ELSE IF Head(bytes) = LeadByte
    THEN IF Len(bytes) >= 2 /\ bytes[2] = ContinuationByte
         THEN <<EAcute>> \o ChunkToString(SubSeq(bytes, 3, Len(bytes)))
         ELSE <<Replacement>> \o ChunkToString(Tail(bytes))
    ELSE IF Head(bytes) = ContinuationByte
    THEN <<Replacement>> \o ChunkToString(Tail(bytes))
    ELSE <<Head(bytes)>> \o ChunkToString(Tail(bytes))

\* Streams that hold a character of two bytes: an event whose payload is the
\* JSON string of that character, an event whose payload is a number, the
\* sentinel.
ByteLineTexts ==
    { DataPrefix \o <<Quote, LeadByte, ContinuationByte, Quote>>,
      DataPrefix \o <<"1">>,
      DataPrefix \o Sentinel }

ByteStreams == {JoinLines(ls) : ls \in SeqsUpTo(ByteLineTexts, MaxLines)}

InitSSE ==
    /\ sseStream \in Streams
    /\ ssePos = 0
    /\ sseBuffer = <<>>
    /\ sseYielded = <<>>
    /\ ssePc = "reading"
    /\ sseSkipped = FALSE
    /\ sseLate = FALSE
    /\ IdleNorm
    /\ IdleStream
    /\ IdleMore

\* responseAdapters.ts:179-197: the transport delivers the next k bytes as
\* one chunk.
ReadChunk(k) ==
    /\ ssePc = "reading"
    /\ ssePos + k <= Len(sseStream)
    /\ LET text == sseBuffer
                   \o ChunkToString(SubSeq(sseStream, ssePos + 1,
                                           ssePos + k))
           sp == SplitLines(text, 1, [lines |-> <<>>, rest |-> <<>>])
           r == ProcessLines(sp.lines, 1,
                             [yielded |-> sseYielded, returned |-> FALSE,
                              skipped |-> FALSE])
       IN /\ sseBuffer' = sp.rest
          /\ sseYielded' = r.yielded
          /\ ssePc' = IF r.returned THEN "returned" ELSE "reading"
          /\ sseSkipped' = r.skipped
    /\ ssePos' = ssePos + k
    /\ UNCHANGED <<sseStream, sseLate>>

\* responseAdapters.ts:179, 198: the byte stream is exhausted; the loop and
\* the generator end, what is left in the buffer is not looked at.
EndOfBytes ==
    /\ ssePc = "reading"
    /\ ssePos = Len(sseStream)
    /\ ssePc' = "ended"
    /\ UNCHANGED <<sseStream, ssePos, sseBuffer, sseYielded, sseSkipped,
                   sseLate>>

\* responseAdapters.ts:188: after the return the loop is left, and the bytes
\* the transport still delivers are not read.
BytesAfterReturn(k) ==
    /\ ssePc = "returned"
    /\ ssePos + k <= Len(sseStream)
    /\ ssePos' = ssePos + k
    /\ sseLate' = TRUE
    /\ UNCHANGED <<sseStream, sseBuffer, sseYielded, ssePc, sseSkipped>>

NextSSE ==
    \/ (\E k \in 1..(Len(sseStream) - ssePos) : ReadChunk(k))
         /\ UNCHANGED <<normVars, streamVars, moreVars>>
    \/ EndOfBytes /\ UNCHANGED <<normVars, streamVars, moreVars>>
    \/ (\E k \in 1..(Len(sseStream) - ssePos) : BytesAfterReturn(k))
         /\ UNCHANGED <<normVars, streamVars, moreVars>>

SpecSSE == InitSSE /\ [][NextSSE]_vars

\* parseSSEStream over the streams that hold a character of two bytes.
InitSSEBytes ==
    /\ sseStream \in ByteStreams
    /\ ssePos = 0
    /\ sseBuffer = <<>>
    /\ sseYielded = <<>>
    /\ ssePc = "reading"
    /\ sseSkipped = FALSE
    /\ sseLate = FALSE
    /\ IdleNorm
    /\ IdleStream
    /\ IdleMore

SpecSSEBytes == InitSSEBytes /\ [][NextSSE]_vars

\* ------------------------------------------------------------------------
\* OpenAIChatProvider.generate: openAIChatProvider.ts:77-169 (the same logic
\* is in part_001:1000-1200), called under the retry policy of spec 4.6

\* A URL is the sequence of its path segments, the host first.
BaseURLs == { <<"h", "responses">>, <<"h", "v2", "crawl">>, <<"h", "v1">> }

\* The place of the first occurrence of pat in url, 0 if there is none.
FindSegments(url, pat) ==
    LET at == {i \in 1..(Len(url) - Len(pat) + 1) :
                  SubSeq(url, i, i + Len(pat) - 1) = pat}
    IN IF at = {} THEN 0 ELSE CHOOSE i \in at : \A j \in at : i <= j

\* url.includes(pat) ? url.replace(pat, rep) : url
ReplaceSegments(url, pat, rep) ==
    LET i == FindSegments(url, pat)
    IN IF i = 0 THEN url
       ELSE SubSeq(url, 1, i - 1) \o rep \o SubSeq(url, i + Len(pat), Len(url))

\* openAIChatProvider.ts:450-467
GetTargetURL(base, useResponses) ==
    IF base = <<>> THEN <<>>
    ELSE IF useResponses
    THEN ReplaceSegments(base, <<"v2", "crawl">>, <<"responses">>)
    ELSE ReplaceSegments(base, <<"responses">>, <<"v2", "crawl">>)

Request(attempt, url, body) == [attempt |-> attempt, url |-> url, body |-> body]

\* response.data of the Responses protocol and of the Chat protocol.
ResponsesData(output) == [NoData EXCEPT !.kind = "responses", !.output = output]
ChatData(content, tool_calls, finish_reason) ==
    [NoData EXCEPT !.kind = "chat", !.content = content,
                   !.tool_calls = tool_calls, !.finish_reason = finish_reason]

ToolCall(id, name, arguments) ==
    [id |-> id, name |-> name, arguments |-> arguments]

ResponsesResponses == {ResponsesData(o) : o \in ResponsesOutputs}

ChatResponses ==
    { ChatData("x", <<>>, "stop"),
      ChatData("", <<ToolCall("call0", "n", <<"{", "}">>)>>, "tool_calls"),
      ChatData("x", <<ToolCall("", "", <<"{">>)>>, "function_call"),
      ChatData("", <<>>, "length"),
      ChatData("", <<>>, "content_filter"),
      ChatData("x", <<>>, "") }

\* A mutant of ConvertFinishReason: every finish_reason but stop and length
\* is OTHER.
ConvertFinishReasonNoToolCalls(fr) ==
    IF fr = "" THEN NoFinish
    ELSE IF fr = "stop" THEN "STOP"
    ELSE IF fr = "length" THEN "MAX_TOKENS"
    ELSE "OTHER"

\* responseAdapters.ts:37-45
ConvertFinishReason(fr) ==
    IF fr = "" THEN NoFinish
    ELSE IF fr = "stop" THEN "STOP"
    ELSE IF fr = "length" THEN "MAX_TOKENS"
    ELSE IF fr = "tool_calls" \/ fr = "function_call" THEN "STOP"
    ELSE "OTHER"

\* responseAdapters.ts:22-32
RECURSIVE ChatToolCallParts(_)
ChatToolCallParts(tcs) ==
    IF tcs = <<>> THEN <<>>
    ELSE LET tc == Head(tcs) IN
         <<FunctionCallPart(NameOrTool(tc.name),
                            IF tc.arguments # <<>> /\ IsJSON(tc.arguments)
                            THEN JSONParse(tc.arguments) ELSE EmptyObject,
                            tc.id, -1)>>
         \o ChatToolCallParts(Tail(tcs))

\* responseAdapters.ts:14-56
ConvertFromOpenAIResponse(data) ==
    Fragment((IF data.content # "" THEN <<TextPart(data.content)>> ELSE <<>>)
              \o ChatToolCallParts(data.tool_calls),
             ConvertFinishReason(data.finish_reason), 0)

\* A mutant of HasResponsesToolCalls: the content of the message items is not
\* looked at.
HasResponsesToolCallsTopLevel(data) ==
    \E i \in DOMAIN data.output :
       data.output[i].type \in {"tool_call", "function_call"}

\* openAIChatProvider.ts:469-494
HasResponsesToolCalls(data) ==
    \E i \in DOMAIN data.output :
       LET item == data.output[i] IN
       \/ item.type = "tool_call" \/ item.type = "function_call"
       \/ /\ item.type = "message"
          /\ \E k \in DOMAIN item.content :
                item.content[k].type \in {"tool_call", "function_call"}

\* A mutant of FallbackNeeded: no fallback.
FallbackNeededNever(useResponses, data) == FALSE

\* openAIChatProvider.ts:145
FallbackNeeded(useResponses, data) ==
    useResponses /\ ~HasResponsesToolCalls(data)

\* openAIChatProvider.ts:165-167
ConvertPrimary(useResponses, data) ==
    IF useResponses THEN ConvertFromResponsesApi(data.output)
    ELSE ConvertFromOpenAIResponse(data)

\* ------------------------------------------------------------------------
\* The two scans of one Responses output: openAIChatProvider.ts:469-494 and
\* responseAdapters.ts:58-86

\* The items of a message's content: a text, a tool call, a message (which
\* neither scan descends into).
ContentItems ==
    { ResponseItem("output_text", "x", "", "", <<>>, <<>>),
      ResponseItem("tool_call", "", "n", "call1", <<"{", "}">>, <<>>),
      ResponseItem("message", "", "", "", <<>>,
          <<ResponseItem("function_call", "", "n", "call2", <<>>, <<>>)>>) }

\* The items of an output: a text, a tool call under either type name, an
\* item of another type, a message.
OutputItems ==
    { ResponseItem("output_text", "x", "", "", <<>>, <<>>),
      ResponseItem("function_call", "", "n", "call0", <<"{", "}">>, <<>>),
      ResponseItem("tool_call", "", "", "call0", <<"{">>, <<>>),
      ResponseItem("reasoning", "", "", "", <<>>, <<>>) }
    \cup {ResponseItem("message", "", "", "", <<>>, c) :
            c \in SeqsUpTo(ContentItems, MaxContent)}

InitScan ==
    /\ scanData \in {ResponsesData(o) : o \in SeqsUpTo(OutputItems, MaxItems)}
    /\ scanDone = {}
    /\ scanHas = FALSE
    /\ scanParts = <<>>
    /\ IdleNorm
    /\ IdleStream
    /\ IdleSSE
    /\ IdleGen
    /\ IdleCurl
    /\ IdleConc
    /\ IdleInput
    /\ IdleBody
    /\ IdleUsage
    /\ IdleHist
    /\ IdleLog
    /\ IdleReq

\* openAIChatProvider.ts:145: the router's test of the response.
ScanForToolCalls ==
    /\ "has" \notin scanDone
    /\ scanHas' = HasResponsesToolCalls(scanData)
    /\ scanDone' = scanDone \cup {"has"}
    /\ UNCHANGED <<scanData, scanParts>>

\* openAIChatProvider.ts:165-167: the adapter's conversion of the response.
ConvertResponse ==
    /\ "convert" \notin scanDone
    /\ scanParts' = ConvertFromResponsesApi(scanData.output).parts
    /\ scanDone' = scanDone \cup {"convert"}
    /\ UNCHANGED <<scanData, scanHas>>

otherThanScan == <<normVars, streamVars, sseVars, genVars, curlVars, concVars,
    inputVars, bodyVars, usageVars, histVars, logVars,
    reqVars>>

NextScan ==
    \/ ScanForToolCalls /\ UNCHANGED otherThanScan
    \/ ConvertResponse /\ UNCHANGED otherThanScan

SpecScan == InitScan /\ [][NextScan]_vars

\* The errors axios.post rejects with: a connection timeout, a timeout told
\* by the message only, a connection reset, a 5xx, a request rejected with
\* 400, and a 404.
Error(code, message, status) ==
    [code |-> code, message |-> message, status |-> status]

Errors ==
    { Error("ETIMEDOUT", <<"x">>, 0),
      Error("ECONNABORTED", <<"T", "i", "m", "e", "O", "u", "t">>, 0),
      Error("ECONNRESET", <<"x">>, 0),
      Error("ERR_BAD_RESPONSE", <<"x">>, 503),
      Error("ERR_BAD_REQUEST", <<"x">>, 400),
      Error("ERR_BAD_REQUEST", <<"x">>, 404) }

ToLowerChar(c) ==
    CASE c = "T" -> "t" [] c = "O" -> "o" [] OTHER -> c

ToLowerCase(text) == [i \in DOMAIN text |-> ToLowerChar(text[i])]

\* Retry policy (spec 4.6): a connection timeout, or a message containing
\* "timeout" whatever the case of its letters.
IsTimeoutError(e) ==
    \/ e.code = "ETIMEDOUT"
    \/ FindSegments(ToLowerCase(e.message),
                    <<"t", "i", "m", "e", "o", "u", "t">>) # 0

\* Retry policy (spec 4.6): the general classifier of transient errors,
\* network resets and 5xx.
IsTransientError(e) ==
    e.code = "ECONNRESET" \/ (e.status >= 500 /\ e.status <= 599)

\* A mutant of IsRetryable: nothing is retried.
IsRetryableNever(e) == FALSE

\* Retry policy (spec 4.6)
IsRetryable(e) == IsTimeoutError(e) \/ IsTransientError(e)

InitGen ==
    /\ genUseResponses \in BOOLEAN
    /\ genBase \in BaseURLs
    /\ genTools \in BOOLEAN
    /\ genPc = "idle"
    /\ genAttempt = 0
    /\ genRequests = <<>>
    /\ genPrimaryData = NoData
    /\ genChatData = NoData
    /\ genResult = NoResponse
    /\ genError = NoError
    /\ genFailures = <<>>
    /\ IdleNorm
    /\ IdleStream
    /\ IdleSSE
    /\ IdleCurl
    /\ IdleConc
    /\ IdleInput
    /\ IdleBody
    /\ IdleUsage
    /\ IdleHist
    /\ IdleLog
    /\ IdleScan
    /\ IdleReq

\* openAIChatProvider.ts:96-141: generate is invoked and issues its primary
\* request, to the target and with the body of the configured protocol.
IssuePrimary ==
    /\ genAttempt' = genAttempt + 1
    /\ genRequests' = Append(genRequests,
          Request(genAttempt + 1, GetTargetURL(genBase, genUseResponses),
                  IF genUseResponses THEN "responses" ELSE "chat"))
    /\ genPrimaryData' = NoData
    /\ genChatData' = NoData
    /\ genError' = NoError
    /\ genPc' = "primary"
    /\ UNCHANGED <<genUseResponses, genBase, genTools, genResult, genFailures>>

\* The caller's first invocation of generate.
Invoke ==
    /\ genPc = "idle"
    /\ IssuePrimary

\* openAIChatProvider.ts:141-167: the primary request resolves; either the
\* fallback request is issued, or the converted response is returned.
PrimaryResponds(data) ==
    /\ genPc = "primary"
    /\ data.kind = (IF genUseResponses THEN "responses" ELSE "chat")
    /\ genPrimaryData' = data
    /\ IF FallbackNeeded(genUseResponses, data)
       THEN /\ genRequests' = Append(genRequests,
                  Request(genAttempt, GetTargetURL(genBase, FALSE), "chat"))
            /\ genPc' = "fallback"
            /\ UNCHANGED genResult
       ELSE /\ genResult' = ConvertPrimary(genUseResponses, data)
            /\ genPc' = "resolved"
            /\ UNCHANGED genRequests
    /\ UNCHANGED <<genUseResponses, genBase, genTools, genAttempt, genChatData,
                   genError, genFailures>>

\* The failure of the last request issued, as the history keeps it.
Failure(e) ==
    [attempt |-> genAttempt, error |-> e, requests |-> Len(genRequests)]

\* A mutant of Throw: the failure of the fallback request is hidden and the
\* conversion of the Responses result returned instead.
ThrowUnlessPrimaryAnswered(e) ==
    /\ IF genPc = "fallback"
       THEN /\ genResult' = ConvertPrimary(genUseResponses, genPrimaryData)
            /\ genPc' = "resolved"
            /\ UNCHANGED genError
       ELSE /\ genError' = e
            /\ genPc' = "threw"
            /\ UNCHANGED genResult
    /\ genFailures' = Append(genFailures, Failure(e))
    /\ UNCHANGED <<genUseResponses, genBase, genTools, genAttempt,
                   genRequests, genPrimaryData, genChatData>>

\* openAIChatProvider.ts:165-168: catch (error) { await
\* this.handleError(...); throw error; } handleError (lines 514-557) logs and
\* returns.
Throw(e) ==
    /\ genError' = e
    /\ genPc' = "threw"
    /\ genFailures' = Append(genFailures, Failure(e))
    /\ UNCHANGED <<genUseResponses, genBase, genTools, genAttempt,
                   genRequests, genPrimaryData, genChatData, genResult>>

\* A mutant of PrimaryFails: a failed primary request is answered by the
\* fallback request.
PrimaryFailsThenChat(e) ==
    /\ genPc = "primary"
    /\ genFailures' = Append(genFailures, Failure(e))
    /\ genRequests' = Append(genRequests,
          Request(genAttempt, GetTargetURL(genBase, FALSE), "chat"))
    /\ genPc' = "fallback"
    /\ UNCHANGED <<genUseResponses, genBase, genTools, genAttempt,
                   genPrimaryData, genChatData, genResult, genError>>

\* openAIChatProvider.ts:141, 165-168: the primary request rejects.
PrimaryFails(e) ==
    /\ genPc = "primary"
    /\ Throw(e)

\* openAIChatProvider.ts:157-161: the fallback request resolves; its
\* conversion is returned, without another look at it.
FallbackResponds(data) ==
    /\ genPc = "fallback"
    /\ data.kind = "chat"
    /\ genChatData' = data
    /\ genResult' = ConvertFromOpenAIResponse(data)
    /\ genPc' = "resolved"
    /\ UNCHANGED <<genUseResponses, genBase, genTools, genAttempt,
                   genRequests, genPrimaryData, genError, genFailures>>

\* openAIChatProvider.ts:157, 165-168: the fallback request rejects.
FallbackFails(e) ==
    /\ genPc = "fallback"
    /\ Throw(e)

\* Retry policy (spec 4.6): a retryable error, attempts left; after the
\* backoff the same request is issued again.
Retry ==
    /\ genPc = "threw"
    /\ IsRetryable(genError)
    /\ genAttempt < MaxAttempts
    /\ IssuePrimary

\* Retry policy (spec 4.6): an error that is not retryable, or no attempt
\* left; the error propagates to the caller.
Surface ==
    /\ genPc = "threw"
    /\ ~(IsRetryable(genError) /\ genAttempt < MaxAttempts)
    /\ genPc' = "rejected"
    /\ UNCHANGED <<genUseResponses, genBase, genTools, genAttempt,
                   genRequests, genPrimaryData, genChatData, genResult,
                   genError, genFailures>>

otherThanGen == <<normVars, streamVars, sseVars, curlVars, concVars, inputVars,
    bodyVars,
    usageVars,
    histVars,
    logVars,
    scanVars,
    reqVars>>

NextGen ==
    \/ Invoke /\ UNCHANGED otherThanGen
    \/ (\E d \in ResponsesResponses \cup ChatResponses : PrimaryResponds(d))
         /\ UNCHANGED otherThanGen
    \/ (\E e \in Errors : PrimaryFails(e)) /\ UNCHANGED otherThanGen
    \/ (\E d \in ChatResponses : FallbackResponds(d)) /\ UNCHANGED otherThanGen
    \/ (\E e \in Errors : FallbackFails(e)) /\ UNCHANGED otherThanGen
    \/ Retry /\ UNCHANGED otherThanGen
    \/ Surface /\ UNCHANGED otherThanGen

SpecGen == InitGen /\ [][NextGen]_vars

\* ------------------------------------------------------------------------
\* buildCurlCommand: diagnostics.ts:23-58. The header map is the one of
\* resolveOpenAIEndpoint (part_004:14-35) as axios keeps it: a `common`
\* section and the map's own entries.

ApiKeys == {"k1", "k2"}
HeaderNames == {"Authorization", "authorization", "Content-Type"}

\* A header value: a string (its text, followed by the credential when cred
\* is not empty) or something that is not a string.
HeaderValue(type, text, cred) == [type |-> type, text |-> text, cred |-> cred]

HeaderValues(key) ==
    { HeaderValue("string", "Bearer ", key),
      HeaderValue("string", "application/json", ""),
      HeaderValue("object", "", "") }

Redacted == HeaderValue("string", "Bearer <REDACTED>", "")

\* The credential is the value of an authorization header, in some casing of
\* the name.
HeaderEntries(key) ==
    { e \in [k : HeaderNames, v : HeaderValues(key)] :
        e.v.cred # "" => e.k \in {"Authorization", "authorization"} }

\* The keys of an object are distinct.
DistinctNames(entries) ==
    \A i, j \in DOMAIN entries : entries[i].k = entries[j].k => i = j

HeaderMaps(key) ==
    { h \in [common : SeqsUpTo(HeaderEntries(key), MaxHeaders),
             own : SeqsUpTo(HeaderEntries(key), MaxHeaders)] :
        /\ Len(h.common) + Len(h.own) <= MaxHeaders
        /\ DistinctNames(h.common)
        /\ DistinctNames(h.own) }

\* headers[k] = v: a present key keeps its place.
SetHeader(headers, k, v) ==
    IF \E i \in DOMAIN headers : headers[i].k = k
    THEN [i \in DOMAIN headers |->
            IF headers[i].k = k THEN [k |-> k, v |-> v] ELSE headers[i]]
    ELSE Append(headers, [k |-> k, v |-> v])

\* diagnostics.ts:32-37: the string entries of one object are copied.
RECURSIVE CopyStrings(_, _)
CopyStrings(entries, headers) ==
    IF entries = <<>> THEN headers
    ELSE CopyStrings(Tail(entries),
                     IF Head(entries).v.type = "string"
                     THEN SetHeader(headers, Head(entries).k, Head(entries).v)
                     ELSE headers)

\* diagnostics.ts:42-44
RedactAuthorization(headers) ==
    IF \E i \in DOMAIN headers : headers[i].k = "Authorization"
    THEN SetHeader(headers, "Authorization", Redacted)
    ELSE headers

\* diagnostics.ts:50-55: a body that cannot be serialized is written {}.
BodyText(body) == IF body = "circular" THEN "{}" ELSE body

\* diagnostics.ts:23-58
BuildCurlCommand(url, h, body) ==
    [url |-> url,
     headerLines |-> RedactAuthorization(
                        CopyStrings(h.own, CopyStrings(h.common, <<>>))),
     body |-> BodyText(body)]

InitCurl ==
    /\ curlKey \in ApiKeys
    /\ curlUrl \in {"https://h/responses"}
    /\ curlHeaders \in HeaderMaps(curlKey)
    /\ curlBody \in {"body", "circular"}
    /\ curlOut = NoCommand
    /\ curlPc = "call"
    /\ IdleNorm
    /\ IdleStream
    /\ IdleSSE
    /\ IdleGen
    /\ IdleConc
    /\ IdleInput
    /\ IdleBody
    /\ IdleUsage
    /\ IdleHist
    /\ IdleLog
    /\ IdleScan
    /\ IdleReq

BuildCurl ==
    /\ curlPc = "call"
    /\ curlOut' = BuildCurlCommand(curlUrl, curlHeaders, curlBody)
    /\ curlPc' = "done"
    /\ UNCHANGED <<curlUrl, curlHeaders, curlBody, curlKey>>

otherThanCurl == <<normVars, streamVars, sseVars, genVars, concVars, inputVars,
    bodyVars,
    usageVars,
    histVars,
    logVars,
    scanVars,
    reqVars>>

NextCurl == BuildCurl /\ UNCHANGED otherThanCurl

SpecCurl == InitCurl /\ [][NextCurl]_vars

\* ------------------------------------------------------------------------
\* What one request hands to the logger: generate (openAIChatProvider.ts:
\* 103-168), generateStream through logRequest (497-512), and handleError
\* (514-557), with the log functions of lines 608-616

\* part_004:26-32: the headers resolveOpenAIEndpoint returns, which the
\* provider gives to axios.create; axios keeps them as the own entries of
\* defaults.headers.
ResolveHeaders(configHeaders, apiKey) ==
    LET base == <<[k |-> "Content-Type",
                   v |-> HeaderValue("string", "application/json", "")]>>
                \o configHeaders
    IN [common |-> <<>>,
        own |-> IF apiKey # ""
                THEN SetHeader(base, "Authorization",
                               HeaderValue("string", "Bearer ", apiKey))
                ELSE base]

\* A text handed to debugLogger.log: its fixed beginning and what is written
\* after it, which is a string, the JSON text of a header object or a cURL
\* command.
LogText(tag, text, headers, curl) ==
    [tag |-> tag, text |-> text, headers |-> headers, curl |-> curl]

\* diagnostics.ts:10-18 for a header object: JSON.stringify writes every
\* entry of the object with its value (the header objects of the model are
\* shorter than the 1200 characters after which the text is cut).
StringifyHeaders(h) == h

\* openAIChatProvider.ts:608-612
LogHeaders(h) ==
    LogText("[OpenAI Debug] Request Headers: ", "", StringifyHeaders(h),
            NoCommand)

\* openAIChatProvider.ts:614-616
LogCurl(curl) ==
    LogText("[OpenAI Debug] cURL: ", "", [common |-> <<>>, own |-> <<>>], curl)

LogString(tag, text) ==
    LogText(tag, text, [common |-> <<>>, own |-> <<>>], NoCommand)

\* openAIChatProvider.ts:110-120, 497-508: the command, the body and the
\* headers of the request.
RequestLog(url, h, body) ==
    << LogCurl(BuildCurlCommand(url, h, body)),
       LogString("[OpenAI Debug] Request Body: ", BodyText(body)),
       LogHeaders(h) >>

\* openAIChatProvider.ts:514-557: handleError.
ErrorLog(e, url, h, body) ==
    << LogString("[OpenAI Debug] Request failed with status ", e.status),
       LogString("[OpenAI Debug] Request URL: ", url),
       LogString("[OpenAI Debug] Request Body: ", BodyText(body)),
       LogHeaders(h) >>
    \o (IF e.status = "400"
        THEN <<LogCurl(BuildCurlCommand(url, h, body))>> ELSE <<>>)
    \o <<LogString("[OpenAI Debug] Error Response Body: ", e.data)>>

\* openAIChatProvider.ts:142-144
ResponseLog == <<LogString("[OpenAICompRaw] response: ", "data")>>

\* config.headers: none, or one header of the caller.
ConfigHeaders ==
    {<<>>, <<[k |-> "X-Title", v |-> HeaderValue("string", "t", "")]>>}

\* The errors of the request: a status (unknown when there was no response)
\* and the body of the error response.
RequestErrors ==
    [status : {"400", "401", "500", "unknown"}, data : {"", "error"}]

InitReq ==
    /\ reqKey \in ApiKeys
    /\ reqConfigHeaders \in ConfigHeaders
    /\ reqHeaders = ResolveHeaders(reqConfigHeaders, reqKey)
    /\ reqUrl \in {"https://h/responses", "https://h/v2/crawl"}
    /\ reqBody \in {"body", "circular"}
    /\ reqError = NoRequestError
    /\ reqLogged = <<>>
    /\ reqPc = "start"
    /\ IdleNorm
    /\ IdleStream
    /\ IdleSSE
    /\ IdleGen
    /\ IdleCurl
    /\ IdleConc
    /\ IdleInput
    /\ IdleBody
    /\ IdleUsage
    /\ IdleHist
    /\ IdleLog
    /\ IdleScan

\* openAIChatProvider.ts:110-141, 240-246: the request is logged and sent.
SendRequest ==
    /\ reqPc = "start"
    /\ reqLogged' = reqLogged \o RequestLog(reqUrl, reqHeaders, reqBody)
    /\ reqPc' = "sent"
    /\ UNCHANGED <<reqKey, reqConfigHeaders, reqHeaders, reqUrl, reqBody,
                   reqError>>

\* openAIChatProvider.ts:141-144: the response arrives.
ReceiveResponse ==
    /\ reqPc = "sent"
    /\ reqLogged' = reqLogged \o ResponseLog
    /\ reqPc' = "responded"
    /\ UNCHANGED <<reqKey, reqConfigHeaders, reqHeaders, reqUrl, reqBody,
                   reqError>>

\* openAIChatProvider.ts:164-167, 247-250: axios.post rejects and the error
\* is handed to handleError.
HandleError(e) ==
    /\ reqPc = "sent"
    /\ reqError' = e
    /\ reqLogged' = reqLogged \o ErrorLog(e, reqUrl, reqHeaders, reqBody)
    /\ reqPc' = "failed"
    /\ UNCHANGED <<reqKey, reqConfigHeaders, reqHeaders, reqUrl, reqBody>>

otherThanReq == <<normVars, streamVars, sseVars, genVars, curlVars, concVars,
    inputVars, bodyVars, usageVars, histVars, logVars, scanVars>>

NextReq ==
    \/ SendRequest /\ UNCHANGED otherThanReq
    \/ ReceiveResponse /\ UNCHANGED otherThanReq
    \/ (\E e \in RequestErrors : HandleError(e)) /\ UNCHANGED otherThanReq

SpecReq == InitReq /\ [][NextReq]_vars

\* ------------------------------------------------------------------------
\* Two streaming calls in flight on one provider. generateStream returns a
\* new generator for every call (openAIChatProvider.ts:171-176); the calls
\* run on one thread and can change places wherever one of them awaits: at
\* the request (244) and at each event of the for await (252).

\* The events of the concurrent model: those of Events that speak of buffer
\* index 0 and carry no finish reason or "stop".
ConcEvents ==
    {e \in Events :
        /\ \A i \in DOMAIN e.tool_calls : e.tool_calls[i].index = 0
        /\ e.finish \in {"", "stop"}}

\* A mutant of LocalOf: one object serves every call, as a field of the
\* provider would.
LocalOfShared(locals, c) == locals[1]

\* openAIChatProvider.ts:197-201: sawFinish and toolCallsBuffer are declared
\* in the body of the generator function, so the name denotes, in call c, the
\* object that call created.
LocalOf(locals, c) == locals[c]

InitConc ==
    /\ IdleConc
    /\ IdleNorm
    /\ IdleStream
    /\ IdleSSE
    /\ IdleGen
    /\ IdleCurl
    /\ IdleInput
    /\ IdleBody
    /\ IdleUsage
    /\ IdleHist
    /\ IdleLog
    /\ IdleScan
    /\ IdleReq

\* openAIChatProvider.ts:197-201, 242-246: call c creates its locals, posts
\* the chat request and is handed its stream.
ConcPostChat(c) ==
    /\ concPc[c] = "idle"
    /\ concBuffer' = [concBuffer EXCEPT ![c] = <<>>]
    /\ concSawFinish' = [concSawFinish EXCEPT ![c] = FALSE]
    /\ concPc' = [concPc EXCEPT ![c] = "streaming"]
    /\ UNCHANGED <<concEvents, concYielded, concOverlap>>

\* openAIChatProvider.ts:252-333: call c is resumed with its next event and
\* runs the body of the loop up to the next await.
ConcReceiveEvent(c, e) ==
    /\ concPc[c] = "streaming"
    /\ Len(concEvents[1]) + Len(concEvents[2]) < MaxConcEvents
    /\ LET r == HandleEvent(e, [buffer |-> LocalOf(concBuffer, c),
                                sawFinish |-> LocalOf(concSawFinish, c),
                                yielded |-> concYielded[c]],
                            Len(concEvents[c]) + 1)
       IN /\ concBuffer' = [concBuffer EXCEPT ![c] = r.buffer]
          /\ concSawFinish' = [concSawFinish EXCEPT ![c] = r.sawFinish]
          /\ concYielded' = [concYielded EXCEPT ![c] = r.yielded]
    /\ concEvents' = [concEvents EXCEPT ![c] = Append(@, e)]
    /\ concOverlap' = (concOverlap
                       \/ (/\ e.tool_calls # <<>>
                           /\ \E d \in Calls \ {c} : concBuffer[d] # <<>>))
    /\ UNCHANGED concPc

\* openAIChatProvider.ts:335-345: the stream of call c is exhausted.
ConcEndOfEvents(c) ==
    /\ concPc[c] = "streaming"
    /\ concYielded' = [concYielded EXCEPT
                         ![c] = @ \o SynthTerminal(LocalOf(concSawFinish, c))]
    /\ concPc' = [concPc EXCEPT ![c] = "done"]
    /\ UNCHANGED <<concEvents, concBuffer, concSawFinish, concOverlap>>

otherThanConc == <<normVars, streamVars, sseVars, genVars, curlVars, inputVars,
    bodyVars,
    usageVars,
    histVars,
    logVars,
    scanVars,
    reqVars>>

NextConc ==
    \/ (\E c \in Calls : ConcPostChat(c)) /\ UNCHANGED otherThanConc
    \/ (\E c \in Calls, e \in ConcEvents : ConcReceiveEvent(c, e))
         /\ UNCHANGED otherThanConc
    \/ (\E c \in Calls : ConcEndOfEvents(c)) /\ UNCHANGED otherThanConc

SpecConc == InitConc /\ [][NextConc]_vars

\* ------------------------------------------------------------------------
\* buildResponsesInputFromMessages: messages.ts:272-381. A text is a sequence
\* of characters.

ChatRoles == {"assistant", "system", "user", "developer"}
Contents == {<<>>, <<" ">>, <<" ", "t">>}

\* A chat-format message; a field the message lacks is empty.
Message(role, content, tool_calls, tool_call_id) ==
    [role |-> role, content |-> content, tool_calls |-> tool_calls,
     tool_call_id |-> tool_call_id]

Messages ==
    {Message(r, c, tcs, "") :
        r \in ChatRoles, c \in Contents,
        tcs \in {<<>>, <<ToolCall("c1", "n", "{}")>>,
                 <<ToolCall("c2", "n", "{}"), ToolCall("c1", "n", "{}")>>}}
    \cup {Message("tool", c, <<>>, id) :
            c \in Contents, id \in {"", "c1", "c2"}}

\* An entry of the input: a message entry (role and typed content), a
\* function_call or a function_call_output.
InputEntry(type, role, content, call_id, name, arguments, output) ==
    [type |-> type, role |-> role, content |-> content, call_id |-> call_id,
     name |-> name, arguments |-> arguments, output |-> output]

\* messages.ts:328-334
TextEntries(m) ==
    IF Len(Trim(m.content)) > 0
    THEN <<InputEntry("message", m.role,
                      <<[type |-> IF m.role = "assistant" THEN "output_text"
                                  ELSE "input_text",
                         text |-> Trim(m.content)]>>,
                      "", "", "", <<>>)>>
    ELSE <<>>

\* A mutant of FunctionCallEntries: only the first tool call of a message is
\* given an entry.
FunctionCallEntriesFirstOnly(m) ==
    IF m.tool_calls = <<>> THEN <<>>
    ELSE <<InputEntry("function_call", "", <<>>, m.tool_calls[1].id,
                      m.tool_calls[1].name, m.tool_calls[1].arguments, <<>>)>>

\* messages.ts:335-351
FunctionCallEntries(m) ==
    [i \in DOMAIN m.tool_calls |->
        InputEntry("function_call", "", <<>>, m.tool_calls[i].id,
                   m.tool_calls[i].name, m.tool_calls[i].arguments, <<>>)]

\* messages.ts:355-373
FunctionCallOutputEntries(m) ==
    IF m.tool_call_id # ""
    THEN <<InputEntry("function_call_output", "", <<>>, m.tool_call_id, "",
                      "", m.content)>>
    ELSE <<>>

\* messages.ts:312-374: the entries the loop pushes.
RECURSIVE ProjectMessages(_)
ProjectMessages(ms) ==
    IF ms = <<>> THEN <<>>
    ELSE LET m == Head(ms)
         IN (IF m.role \in ChatRoles
             THEN TextEntries(m) \o FunctionCallEntries(m)
             ELSE IF m.role = "tool" THEN FunctionCallOutputEntries(m)
             ELSE <<>>)
            \o ProjectMessages(Tail(ms))

\* { role: 'user', content: [{ type: 'input_text', text: '' }] }
EmptyUserEntry ==
    InputEntry("message", "user", <<[type |-> "input_text", text |-> <<>>]>>,
               "", "", "", <<>>)

\* A mutant of EnsureNonEmpty: nothing is put in for an empty input.
EnsureNonEmptyNone(entries) == entries

\* messages.ts:376-378
EnsureNonEmpty(entries) ==
    IF Len(entries) = 0 THEN <<EmptyUserEntry>> ELSE entries

BuildResponsesInputFromMessages(ms) == EnsureNonEmpty(ProjectMessages(ms))

InitInput ==
    /\ messages \in SeqsUpTo(Messages, MaxMessages)
    /\ input = <<>>
    /\ inputPc = "call"
    /\ IdleNorm
    /\ IdleStream
    /\ IdleSSE
    /\ IdleGen
    /\ IdleCurl
    /\ IdleConc
    /\ IdleBody
    /\ IdleUsage
    /\ IdleHist
    /\ IdleLog
    /\ IdleScan
    /\ IdleReq

BuildInput ==
    /\ inputPc = "call"
    /\ input' = BuildResponsesInputFromMessages(messages)
    /\ inputPc' = "done"
    /\ UNCHANGED messages

otherThanInput == <<normVars, streamVars, sseVars, genVars, curlVars, concVars,
    bodyVars,
    usageVars,
    histVars,
    logVars,
    scanVars,
    reqVars>>

NextInput == BuildInput /\ UNCHANGED otherThanInput

SpecInput == InitInput /\ [][NextInput]_vars

\* ------------------------------------------------------------------------
\* The request bodies: buildChatRequestBody and buildResponsesRequestBody,
\* openAIChatProvider.ts:405-448

\* openAIChatProvider.ts:57
DEFAULT_MAX_OUTPUT_TOKENS == 8192

Model == "m"

\* req.config?.maxOutputTokens, temperature, topP: undefined or a number.
OptionalNumbers == {Undefined} \cup {Num(n) : n \in 0..MaxOutputTokens}

\* req.config?.tools: undefined, or groups of function declarations (names).
ToolsInputs ==
    {NoTools, [defined |-> TRUE, fns |-> <<>>],
     [defined |-> TRUE, fns |-> <<"read_file">>]}

\* part_003:27-54, 56-83: the declarations in the provider's format, undefined
\* when there is none.
ConvertTools(tools) ==
    IF tools.defined /\ Len(tools.fns) > 0 THEN tools ELSE NoTools

\* The texts of the messages of the body model are sequences of pieces; a
\* piece is a character or the literal hint, in lower case or capitalised.
Hint == "use read_file"
CapitalisedHint == "Use Read_File"

\* content.toLowerCase(), piece by piece.
LowerCasePiece(c) == IF c = CapitalisedHint THEN Hint ELSE c

\* openAIChatProvider.ts:384-403: the last user message decides; "" stands
\* for undefined.
InferPreferredTool(msgs) ==
    LET users == {i \in DOMAIN msgs : msgs[i].role = "user"}
    IN IF users = {} THEN ""
       ELSE LET last == CHOOSE i \in users : \A j \in users : j <= i
                content == msgs[last].content
            IN IF \E k \in DOMAIN content : LowerCasePiece(content[k]) = Hint
               THEN "read_file"
               ELSE ""

\* The messages of a request: none, a user message without the hint, with
\* the hint, with the capitalised hint before an assistant message, and with
\* the hint before a later user message that has none.
BodyMessages ==
    { <<>>,
      <<Message("user", <<" ", "t">>, <<>>, "")>>,
      <<Message("user", <<"t", " ", Hint>>, <<>>, "")>>,
      <<Message("user", <<CapitalisedHint>>, <<>>, ""),
        Message("assistant", <<"t">>, <<>>, "")>>,
      <<Message("user", <<Hint>>, <<>>, ""),
        Message("user", <<"t">>, <<>>, "")>> }

\* A mutant of NullishCoalesce: the value is passed on as it is.
NullishCoalesceNone(v, d) == v

\* v ?? d
NullishCoalesce(v, d) == IF v.defined THEN v ELSE Num(d)

\* openAIChatProvider.ts:405-429
BuildChatRequestBody(config, msgs, tools, prefer, str) ==
    [kind |-> "chat",
     model |-> Model,
     messages |-> msgs,
     temperature |-> config.temperature,
     max_tokens |-> config.maxOutputTokens,
     top_p |-> config.topP,
     stream |-> str,
     tools |-> tools,
     tool_choice |-> IF tools.defined /\ Len(tools.fns) > 0 /\ prefer # ""
                     THEN prefer ELSE ""]

\* openAIChatProvider.ts:431-448
BuildResponsesRequestBody(config, msgs, prefer) ==
    [kind |-> "responses",
     model |-> Model,
     input |-> BuildResponsesInputFromMessages(msgs),
     max_output_tokens |-> NullishCoalesce(config.maxOutputTokens,
                                           DEFAULT_MAX_OUTPUT_TOKENS),
     tools |-> ConvertTools(config.tools),
     tool_choice |-> prefer]

InitBody ==
    /\ reqConfig \in [maxOutputTokens : OptionalNumbers,
                      temperature : {Undefined, Num(1)},
                      topP : {Undefined},
                      tools : ToolsInputs]
    /\ bodyMessages \in BodyMessages
    /\ preferToolName = InferPreferredTool(bodyMessages)
    /\ stream \in BOOLEAN
    /\ chatBody = NoBody
    /\ responsesBody = NoBody
    /\ IdleNorm
    /\ IdleStream
    /\ IdleSSE
    /\ IdleGen
    /\ IdleCurl
    /\ IdleConc
    /\ IdleInput
    /\ IdleUsage
    /\ IdleHist
    /\ IdleLog
    /\ IdleScan
    /\ IdleReq

\* openAIChatProvider.ts:103-140, 230-236: the chat body of the request.
BuildChat ==
    /\ chatBody = NoBody
    /\ chatBody' = BuildChatRequestBody(reqConfig, bodyMessages,
                                        ConvertTools(reqConfig.tools),
                                        preferToolName, stream)
    /\ UNCHANGED <<reqConfig, bodyMessages, preferToolName, stream,
                   responsesBody>>

\* openAIChatProvider.ts:103-140, 209-213: the Responses body of the request.
BuildResponses ==
    /\ responsesBody = NoBody
    /\ responsesBody' = BuildResponsesRequestBody(reqConfig, bodyMessages,
                                                  preferToolName)
    /\ UNCHANGED <<reqConfig, bodyMessages, preferToolName, stream, chatBody>>

otherThanBody == <<normVars, streamVars, sseVars, genVars, curlVars, concVars,
    inputVars,
    usageVars,
    histVars,
    logVars,
    scanVars,
    reqVars>>

NextBody ==
    \/ BuildChat /\ UNCHANGED otherThanBody
    \/ BuildResponses /\ UNCHANGED otherThanBody

SpecBody == InitBody /\ [][NextBody]_vars

\* ------------------------------------------------------------------------
\* Usage accounting of convertFromResponsesApi: responseAdapters.ts:111-151

NullValue == Value("null", 0, <<>>)
NumberValue(n) == Value("number", n, <<>>)
NonFinite == Value("nonfinite", 0, <<>>)
StringValue(chars) == Value("string", 0, chars)
OtherValue == Value("other", 0, <<>>)

DigitChars == <<"0", "1", "2", "3", "4", "5", "6", "7", "8", "9">>

\* The value of a decimal digit, -1 for another character.
DigitValue(c) ==
    IF \E i \in DOMAIN DigitChars : DigitChars[i] = c
    THEN (CHOOSE i \in DOMAIN DigitChars : DigitChars[i] = c) - 1
    ELSE -1

\* Number(text), for a text of decimal digits; the empty text gives 0 and a
\* text holding another character gives NaN.
RECURSIVE Decimal(_)
Decimal(chars) ==
    IF chars = <<>> THEN 0
    ELSE 10 * Decimal(SubSeq(chars, 1, Len(chars) - 1))
         + DigitValue(chars[Len(chars)])

NumberOfString(chars) ==
    IF \A i \in DOMAIN chars : DigitValue(chars[i]) >= 0
    THEN NumberValue(Decimal(chars))
    ELSE NonFinite

\* A mutant of CoerceNumber: a string is not parsed.
CoerceNumberNoStrings(value) ==
    IF value.type = "number" THEN value.n ELSE 0

\* responseAdapters.ts:142-151
CoerceNumber(value) ==
    IF value.type = "number" THEN value.n
    ELSE IF value.type = "string"
         THEN LET parsed == NumberOfString(value.chars)
              IN IF parsed.type = "number" THEN parsed.n ELSE 0
         ELSE 0

\* a ?? b
Nullish(a, b) == IF a.type \in {"undefined", "null"} THEN b ELSE a

\* responseAdapters.ts:111-133
UsageOf(raw) ==
    IF ~raw.present THEN NoUsageMetadata
    ELSE LET prompt == CoerceNumber(Nullish(raw.input_token_count,
                                      Nullish(raw.input_tokens,
                                              NumberValue(0))))
             candidates == CoerceNumber(Nullish(raw.output_token_count,
                                          Nullish(raw.output_tokens,
                                                  NumberValue(0))))
             totalRaw == Nullish(raw.total_token_count,
                                 Nullish(raw.total_tokens, UndefinedValue))
             total == IF totalRaw.type # "undefined"
                      THEN CoerceNumber(totalRaw)
                      ELSE prompt + candidates
         IN [defined |-> TRUE, promptTokenCount |-> prompt,
             candidatesTokenCount |-> candidates, totalTokenCount |-> total]

\* The values the fields take: input counts of every type; output counts
\* and totals of the types that decide which field is read.
InputValues ==
    {UndefinedValue, NullValue, NonFinite, OtherValue}
    \cup {NumberValue(n) : n \in 0..MaxCount}
    \cup {StringValue(c) : c \in {<<>>, <<"2">>, <<"1", "2">>, <<"x">>}}
OutputValues == {UndefinedValue, NumberValue(1), StringValue(<<"2">>)}
TotalValues ==
    {UndefinedValue, NullValue, NumberValue(7), StringValue(<<"x">>)}

InitUsage ==
    /\ usageRaw \in
         {NoUsage}
         \cup [present : {TRUE},
               input_token_count : InputValues, input_tokens : InputValues,
               output_token_count : OutputValues, output_tokens : OutputValues,
               total_token_count : TotalValues, total_tokens : TotalValues]
    /\ usageMetadata = NoUsageMetadata
    /\ usagePc = "call"
    /\ IdleNorm
    /\ IdleStream
    /\ IdleSSE
    /\ IdleGen
    /\ IdleCurl
    /\ IdleConc
    /\ IdleInput
    /\ IdleBody
    /\ IdleHist
    /\ IdleLog
    /\ IdleScan
    /\ IdleReq

\* responseAdapters.ts:111-139: the usage of the converted response.
ConvertUsage ==
    /\ usagePc = "call"
    /\ usageMetadata' = UsageOf(usageRaw)
    /\ usagePc' = "done"
    /\ UNCHANGED usageRaw

otherThanUsage == <<normVars, streamVars, sseVars, genVars, curlVars, concVars,
    inputVars, bodyVars,
    histVars,
    logVars,
    scanVars,
    reqVars>>

NextUsage == ConvertUsage /\ UNCHANGED otherThanUsage

SpecUsage == InitUsage /\ [][NextUsage]_vars

\* ------------------------------------------------------------------------
\* The /hist subcommands: histCommand.ts (del, del-since and del-before also
\* in part_007:111-248).
\*
\* The text of a history line is a sequence of runs, a run being a character
\* and the number of times it is repeated, so that a text of two thousand
\* characters is a short value.

Run(c, n) == [c |-> c, n |-> n]

\* The text of the characters chars.
Text(chars) == [i \in DOMAIN chars |-> Run(chars[i], 1)]

\* c.repeat(n)
Repeat(c, n) == IF n = 0 THEN <<>> ELSE <<Run(c, n)>>

\* text.length
RECURSIVE TextLength(_)
TextLength(t) == IF t = <<>> THEN 0 ELSE Head(t).n + TextLength(Tail(t))

\* text.slice(0, k)
RECURSIVE SliceTo(_, _)
SliceTo(t, k) ==
    IF k <= 0 \/ t = <<>> THEN <<>>
    ELSE IF Head(t).n <= k
         THEN <<Head(t)>> \o SliceTo(Tail(t), k - Head(t).n)
         ELSE <<Run(Head(t).c, k)>>

\* text.slice(k)
RECURSIVE SliceFrom(_, _)
SliceFrom(t, k) ==
    IF t = <<>> THEN <<>>
    ELSE IF k <= 0 THEN t
    ELSE IF Head(t).n <= k THEN SliceFrom(Tail(t), k - Head(t).n)
    ELSE <<Run(Head(t).c, Head(t).n - k)>> \o Tail(t)

\* `${n}` for n >= 0
RECURSIVE DecimalChars(_)
DecimalChars(n) ==
    IF n < 10 THEN <<DigitChars[n + 1]>>
    ELSE DecimalChars(n \div 10) \o <<DigitChars[(n % 10) + 1]>>

\* histCommand.ts:29
MAX_HISTORY_LINE_LENGTH == 2000

\* histCommand.ts:38: the marker the source file ends a cut line with, the
\* three characters U+00E2 U+20AC U+00A6.
Marker == Text(<<"U+00E2", "U+20AC", "U+00A6">>)

\* An entry of the history: its role ("" when it has none), the text of its
\* parts and, for telling entries apart, its place in the history the chat
\* held at first.
Content(role, text, id) == [role |-> role, text |-> text, id |-> id]

\* histCommand.ts:12-27, for parts that are texts
ContentText(content) == content.text

RoleChars(role) ==
    IF role = "user" THEN <<"u", "s", "e", "r">>
    ELSE <<"m", "o", "d", "e", "l">>

\* `${index}. [${role}] ${text}`
LineOf(index, content) ==
    LET role == IF content.role = "" THEN "model" ELSE content.role
    IN Text(DecimalChars(index) \o <<".", " ", "[">> \o RoleChars(role)
            \o <<"]", " ">>)
       \o ContentText(content)

\* histCommand.ts:31-39
FormatHistoryLine(index, content) ==
    LET line == LineOf(index, content)
    IN IF TextLength(line) <= MAX_HISTORY_LINE_LENGTH THEN line
       ELSE SliceTo(line, MAX_HISTORY_LINE_LENGTH - 1) \o Marker

\* Number.parseInt(text, 10), for a trimmed text without a sign: the number
\* its leading digits write, NaN when it has none.
NaN == -1

RECURSIVE LeadingDigits(_)
LeadingDigits(chars) ==
    IF chars = <<>> \/ DigitValue(Head(chars)) < 0 THEN <<>>
    ELSE <<Head(chars)>> \o LeadingDigits(Tail(chars))

ParseInt(chars) ==
    LET ds == LeadingDigits(Trim(chars))
    IN IF ds = <<>> THEN NaN ELSE Decimal(ds)

\* !nStr || Number.isNaN(n) || n <= 0
InvalidNumber(args) ==
    LET nStr == Trim(args)
    IN nStr = <<>> \/ ParseInt(nStr) = NaN \/ ParseInt(nStr) <= 0

\* args.split(',').map((part) => part.trim()).filter((part) => part.length > 0)
RECURSIVE SplitCommas(_, _)
SplitCommas(chars, acc) ==
    IF chars = <<>> THEN <<acc>>
    ELSE IF Head(chars) = "," THEN <<acc>> \o SplitCommas(Tail(chars), <<>>)
    ELSE SplitCommas(Tail(chars), Append(acc, Head(chars)))

RangeParts(args) ==
    LET parts == SplitCommas(args, <<>>)
        trimmed == [i \in DOMAIN parts |-> Trim(parts[i])]
    IN SelectSeq(trimmed, LAMBDA part : Len(part) > 0)

\* history.slice(from, to): the entries with 0-based indices from .. to - 1.
Slice(h, from, to) ==
    LET lo == IF from < 0 THEN 0 ELSE from
        hi == IF to > Len(h) THEN Len(h) ELSE to
    IN IF lo >= hi THEN <<>> ELSE SubSeq(h, lo + 1, hi)

MessageActionReturn(messageType, content) ==
    [messageType |-> messageType, content |-> content]

\* What an action did: the lines it added, the histories it set, the message
\* it returned.
Outcome(items, sets, return) ==
    [items |-> items, sets |-> sets, return |-> return]

\* The lines of the entries of h that stand at 0-based indices startIndex and
\* up: around.forEach((c, i) => addItem(formatHistoryLine(startIndex + i + 1, c)))
Lines(entries, startIndex) ==
    [i \in DOMAIN entries |-> FormatHistoryLine(startIndex + i, entries[i])]

NoChatToList ==
    Outcome(<<>>, <<>>,
            MessageActionReturn("error",
                "No chat client available to list conversation history."))
NoChatToModify ==
    Outcome(<<>>, <<>>,
            MessageActionReturn("error",
                "No chat client available to modify conversation history."))
NoHistory ==
    Outcome(<<>>, <<>>,
            MessageActionReturn("info", "No conversation history found."))
InvalidNumberReturn ==
    Outcome(<<>>, <<>>, MessageActionReturn("error", "Invalid number."))
InvalidRangeReturn ==
    Outcome(<<>>, <<>>, MessageActionReturn("error", "Invalid range."))
InvalidIndexReturn ==
    Outcome(<<>>, <<>>, MessageActionReturn("error", "Invalid index."))
Deleted(newHistory) ==
    Outcome(<<>>, <<newHistory>>, MessageActionReturn("info", "deleted."))

\* histCommand.ts:41-70
ListallCommand(hasChat, h, args) ==
    IF ~hasChat THEN NoChatToList
    ELSE IF Len(h) = 0 THEN NoHistory
    ELSE Outcome(Lines(h, 0), <<>>, NoMessage)

\* histCommand.ts:72-115
LlCommand(hasChat, h, args) ==
    IF InvalidNumber(args) THEN InvalidNumberReturn
    ELSE IF ~hasChat THEN NoChatToList
    ELSE IF Len(h) = 0 THEN NoHistory
    ELSE LET n == ParseInt(args)
             startIndex == IF Len(h) - n > 0 THEN Len(h) - n ELSE 0
         IN Outcome(Lines(Slice(h, startIndex, Len(h)), startIndex), <<>>,
                    NoMessage)

\* A mutant of LaCommand's window: it ends one entry early.
AroundEndsEarly(h, n) ==
    LET startIndex == IF n - 3 > 0 THEN n - 3 ELSE 0
        endIndex == IF n + 1 < Len(h) THEN n + 1 ELSE Len(h)
    IN [startIndex |-> startIndex,
        entries |-> Slice(h, startIndex, endIndex)]

\* histCommand.ts:410-415
Around(h, n) ==
    LET startIndex == IF n - 3 > 0 THEN n - 3 ELSE 0
        endIndex == IF n + 1 < Len(h) THEN n + 1 ELSE Len(h)
    IN [startIndex |-> startIndex,
        entries |-> Slice(h, startIndex, endIndex + 1)]

\* histCommand.ts:370-425
LaCommand(hasChat, h, args) ==
    IF InvalidNumber(args) THEN InvalidNumberReturn
    ELSE IF ~hasChat THEN NoChatToList
    ELSE IF Len(h) = 0 THEN NoHistory
    ELSE IF ParseInt(args) > Len(h) THEN InvalidIndexReturn
    ELSE LET around == Around(h, ParseInt(args))
         IN Outcome(Lines(around.entries, around.startIndex), <<>>, NoMessage)

\* A mutant of DeleteWith: the history is set before the index is compared
\* with its length.
DeleteWithSetFirst(hasChat, h, args, newHistory) ==
    IF InvalidNumber(args) THEN InvalidNumberReturn
    ELSE IF ~hasChat THEN NoChatToModify
    ELSE IF ParseInt(args) > Len(h)
    THEN Outcome(<<>>, <<newHistory>>, InvalidIndexReturn.return)
    ELSE Deleted(newHistory)

\* The checks the delete subcommands of one number share.
DeleteWith(hasChat, h, args, newHistory) ==
    IF InvalidNumber(args) THEN InvalidNumberReturn
    ELSE IF ~hasChat THEN NoChatToModify
    ELSE IF ParseInt(args) > Len(h) THEN InvalidIndexReturn
    ELSE Deleted(newHistory)

\* A mutant of DeleteCommand: the entry after the Nth is taken out.
DeleteCommandOffByOne(hasChat, h, args) ==
    LET n == ParseInt(args)
        kept == SelectSeq([i \in DOMAIN h |-> [e |-> h[i], idx |-> i - 1]],
                          LAMBDA x : x.idx # n)
    IN DeleteWith(hasChat, h, args, [i \in DOMAIN kept |-> kept[i].e])

\* histCommand.ts:117-161: history.filter((_, idx) => idx !== n - 1)
DeleteCommand(hasChat, h, args) ==
    LET n == ParseInt(args)
        kept == SelectSeq([i \in DOMAIN h |-> [e |-> h[i], idx |-> i - 1]],
                          LAMBDA x : x.idx # n - 1)
    IN DeleteWith(hasChat, h, args, [i \in DOMAIN kept |-> kept[i].e])

\* histCommand.ts:163-208: history.slice(0, n - 1)
DeleteAfterCommand(hasChat, h, args) ==
    DeleteWith(hasChat, h, args, Slice(h, 0, ParseInt(args) - 1))

\* histCommand.ts:210-254: history.slice(0, history.length - n)
DeleteLastCommand(hasChat, h, args) ==
    DeleteWith(hasChat, h, args, Slice(h, 0, Len(h) - ParseInt(args)))

\* histCommand.ts:256-322
DeleteRangeCommand(hasChat, h, args) ==
    LET parts == RangeParts(args)
    IN IF Len(parts) # 2 THEN InvalidRangeReturn
       ELSE LET start == ParseInt(parts[1])
                end == ParseInt(parts[2])
            IN IF start = NaN \/ end = NaN \/ start <= 0 \/ end <= 0
                  \/ start > end
               THEN InvalidRangeReturn
               ELSE IF ~hasChat THEN NoChatToModify
               ELSE IF end > Len(h) THEN InvalidIndexReturn
               ELSE Deleted(Slice(h, 0, start - 1) \o Slice(h, end, Len(h)))

\* histCommand.ts:324-368: history.slice(n)
DeleteBeforeCommand(hasChat, h, args) ==
    DeleteWith(hasChat, h, args, Slice(h, ParseInt(args), Len(h)))

\* The texts of the entries: a short one, one whose line has exactly the
\* longest length that is not cut, and one whose line is one longer.
\* The line of a model entry at a one-digit index opens with 11 characters.
EntryKinds ==
    {[role |-> "user", text |-> Repeat("A", 2)],
     [role |-> "model", text |-> Repeat("B", MAX_HISTORY_LINE_LENGTH - 11)],
     [role |-> "", text |-> Repeat("B", MAX_HISTORY_LINE_LENGTH - 10)]}

Histories ==
    UNION {{[i \in 1..len |-> Content(k[i].role, k[i].text, i)] :
              k \in [1..len -> EntryKinds]} : len \in 0..MaxHistory}

\* The args of the subcommands of one number, and of del-range.
NumberArgs ==
    {DecimalChars(n) : n \in 0..(MaxHistory + 1)}
    \cup {<<>>, <<"x">>, <<" ", "2", " ">>, <<"2", "x">>}
RangeArgs ==
    {DecimalChars(m) \o <<",">> \o DecimalChars(n) :
        m, n \in 0..(MaxHistory + 1)}
    \cup {<<"1">>, <<"1", ",", ",", " ", "2">>, <<"1", ",", "2", ",", "3">>,
          <<"x", ",", "2">>}

InitHist ==
    /\ chat \in BOOLEAN
    /\ history \in Histories
    /\ histCommand = NoCommandRun
    /\ addItemCalls = <<>>
    /\ setHistoryCalls = <<>>
    /\ histReturn = NoMessage
    /\ IdleNorm
    /\ IdleStream
    /\ IdleSSE
    /\ IdleGen
    /\ IdleCurl
    /\ IdleConc
    /\ IdleInput
    /\ IdleBody
    /\ IdleUsage
    /\ IdleLog
    /\ IdleScan
    /\ IdleReq

\* The action of the subcommand name runs with args and has the outcome r.
RunCommand(name, args, r) ==
    /\ histCommand = NoCommandRun
    /\ histCommand' = [name |-> name, args |-> args]
    /\ addItemCalls' = r.items
    /\ setHistoryCalls' = r.sets
    /\ histReturn' = r.return
    /\ UNCHANGED <<chat, history>>

Listall == RunCommand("listall", <<>>, ListallCommand(chat, history, <<>>))
Ll(args) == RunCommand("ll", args, LlCommand(chat, history, args))
La(args) == RunCommand("la", args, LaCommand(chat, history, args))
Del(args) == RunCommand("del", args, DeleteCommand(chat, history, args))
DelAfter(args) ==
    RunCommand("del-after", args, DeleteAfterCommand(chat, history, args))
DelLast(args) ==
    RunCommand("del-last", args, DeleteLastCommand(chat, history, args))
DelRange(args) ==
    RunCommand("del-range", args, DeleteRangeCommand(chat, history, args))
DelBefore(args) ==
    RunCommand("del-before", args, DeleteBeforeCommand(chat, history, args))

otherThanHist == <<normVars, streamVars, sseVars, genVars, curlVars, concVars,
    inputVars, bodyVars, usageVars,
    logVars,
    scanVars,
    reqVars>>

NextHist ==
    \/ Listall /\ UNCHANGED otherThanHist
    \/ (\E a \in NumberArgs : Ll(a)) /\ UNCHANGED otherThanHist
    \/ (\E a \in NumberArgs : La(a)) /\ UNCHANGED otherThanHist
    \/ (\E a \in NumberArgs : Del(a)) /\ UNCHANGED otherThanHist
    \/ (\E a \in NumberArgs : DelAfter(a)) /\ UNCHANGED otherThanHist
    \/ (\E a \in NumberArgs : DelLast(a)) /\ UNCHANGED otherThanHist
    \/ (\E a \in RangeArgs : DelRange(a)) /\ UNCHANGED otherThanHist
    \/ (\E a \in NumberArgs : DelBefore(a)) /\ UNCHANGED otherThanHist

SpecHist == InitHist /\ [][NextHist]_vars

\* ------------------------------------------------------------------------
\* DebugLogger: part_000:25-103. The streams the logger creates are numbered
\* in the order of their creation.

LogLevels == {"LOG", "WARN", "ERROR", "DEBUG"}

\* A mutant of ConsoleMethod: every level goes to console.log.
ConsoleMethodAlwaysLog(level) == "log"

\* part_000:90-100
ConsoleMethod(level) ==
    IF level = "LOG" THEN "log"
    ELSE IF level = "WARN" THEN "warn"
    ELSE IF level = "ERROR" THEN "error"
    ELSE "debug"

\* The logger's fields and what a call did: the console calls, the stream
\* writes and the creation attempts it made.
LoggerStep(s, failed, console, writes, creates) ==
    [stream |-> s, streamFailed |-> failed, console |-> console,
     writes |-> writes, creates |-> creates]

\* A mutant of GetStream: the stream the logger holds is not looked at.
GetStreamAlwaysCreates(s, failed, createOk, newStream) ==
    IF createOk
    THEN [stream |-> newStream, streamFailed |-> failed, attempted |-> TRUE]
    ELSE [stream |-> NoStream, streamFailed |-> TRUE, attempted |-> TRUE]

\* part_000:70-88: createOk tells whether mkdirSync and createWriteStream
\* return, newStream is the stream created if they do.
GetStream(s, failed, createOk, newStream) ==
    IF s # NoStream \/ failed
    THEN [stream |-> s, streamFailed |-> failed, attempted |-> FALSE]
    ELSE IF createOk
         THEN [stream |-> newStream, streamFailed |-> failed,
               attempted |-> TRUE]
         ELSE [stream |-> NoStream, streamFailed |-> TRUE, attempted |-> TRUE]

\* part_000:53-68: call is the number of the call.
Write(level, call, s, failed, createOk, newStream) ==
    LET toConsole == <<[method |-> ConsoleMethod(level), call |-> call]>>
    IN IF ~debugEnabled \/ failed
       THEN LoggerStep(s, failed, toConsole, <<>>, <<>>)
       ELSE LET g == GetStream(s, failed, createOk, newStream)
                creates == IF g.attempted
                           THEN <<[call |-> call, ok |-> createOk,
                                   stream |-> g.stream, resets |-> resets]>>
                           ELSE <<>>
            IN IF g.stream = NoStream
               THEN LoggerStep(g.stream, g.streamFailed, toConsole, <<>>,
                               creates)
               ELSE LoggerStep(g.stream, g.streamFailed, <<>>,
                               <<[stream |-> g.stream, level |-> level,
                                  call |-> call]>>,
                               creates)

\* The streams created so far.
CreatedStreams == {createCalls[i].stream : i \in DOMAIN createCalls} \ {NoStream}

\* The calls made so far.
LoggerCalls == Len(logCalls) + resets

InitLog ==
    /\ debugEnabled \in BOOLEAN
    /\ logStream = NoStream
    /\ streamFailed = FALSE
    /\ logCalls = <<>>
    /\ consoleCalls = <<>>
    /\ streamWrites = <<>>
    /\ createCalls = <<>>
    /\ resets = 0
    /\ streamErrors = <<>>
    /\ IdleNorm
    /\ IdleStream
    /\ IdleSSE
    /\ IdleGen
    /\ IdleCurl
    /\ IdleConc
    /\ IdleInput
    /\ IdleBody
    /\ IdleUsage
    /\ IdleHist
    /\ IdleScan
    /\ IdleReq

\* part_000:29-43: log, warn, error or debug is called.
LogCall(level, createOk) ==
    /\ LoggerCalls < MaxLoggerCalls
    /\ LET r == Write(level, Len(logCalls) + 1, logStream, streamFailed,
                      createOk, Cardinality(CreatedStreams) + 1)
       IN /\ logStream' = r.stream
          /\ streamFailed' = r.streamFailed
          /\ consoleCalls' = consoleCalls \o r.console
          /\ streamWrites' = streamWrites \o r.writes
          /\ createCalls' = createCalls \o r.creates
    /\ logCalls' = Append(logCalls,
                          [level |-> level, resets |-> resets,
                           failedBefore |-> streamFailed])
    /\ UNCHANGED <<debugEnabled, resets, streamErrors>>

\* part_000:45-51
CloseStreamForTests ==
    /\ LoggerCalls < MaxLoggerCalls
    /\ logStream' = NoStream
    /\ streamFailed' = FALSE
    /\ resets' = resets + 1
    /\ UNCHANGED <<debugEnabled, logCalls, consoleCalls, streamWrites,
                   createCalls, streamErrors>>

\* part_000:78-82: a stream the logger created emits 'error'; the handler
\* registered on it runs.
StreamError(s) ==
    /\ s \in CreatedStreams
    /\ \A i \in DOMAIN streamErrors : streamErrors[i].stream # s
    /\ streamFailed' = TRUE
    /\ logStream' = NoStream
    /\ streamErrors' = Append(streamErrors,
                              [stream |-> s, calls |-> Len(logCalls),
                               resets |-> resets])
    /\ UNCHANGED <<debugEnabled, logCalls, consoleCalls, streamWrites,
                   createCalls, resets>>

otherThanLog == <<normVars, streamVars, sseVars, genVars, curlVars, concVars,
    inputVars, bodyVars, usageVars, histVars,
    scanVars,
    reqVars>>

NextLog ==
    \/ (\E level \in LogLevels, createOk \in BOOLEAN : LogCall(level, createOk))
         /\ UNCHANGED otherThanLog
    \/ CloseStreamForTests /\ UNCHANGED otherThanLog
    \/ (\E s \in 1..MaxLoggerCalls : StreamError(s)) /\ UNCHANGED otherThanLog

SpecLog == InitLog /\ [][NextLog]_vars

\* ------------------------------------------------------------------------
\* Properties of the streamed chat path

RECURSIVE PartsOf(_)
PartsOf(frags) ==
    IF frags = <<>> THEN <<>>
    ELSE Head(frags).parts \o PartsOf(Tail(frags))

\* The functionCall parts yielded for the tool call of buffer index i.
CallPartsFor(i) ==
    SelectSeq(PartsOf(yielded),
              LAMBDA p : p.kind = "functionCall" /\ p.idx = i)

\* The events that carry a delta for index i, an argument fragment for index
\* i, a finish signal.
DeltaPositions(i) ==
    {n \in DOMAIN events :
        events[n].tool_calls # <<>> /\ events[n].tool_calls[1].index = i}
FragmentPositions(i) ==
    {n \in DeltaPositions(i) : events[n].tool_calls[1].arguments # <<>>}
FinishPositions == {n \in DOMAIN events : events[n].finish # ""}

Min(S) == CHOOSE n \in S : \A m \in S : n <= m
Max(S) == CHOOSE n \in S : \A m \in S : m <= n

\* The argument text of index i delivered by the first n events.
RECURSIVE ArgumentText(_, _)
ArgumentText(i, n) ==
    IF n = 0 THEN <<>>
    ELSE ArgumentText(i, n - 1)
         \o (IF events[n].tool_calls # <<>> /\ events[n].tool_calls[1].index = i
             THEN events[n].tool_calls[1].arguments ELSE <<>>)

\* The args of the functionCall part produced when the whole text arrives in
\* one delta.
SingleDeltaArgs(text) ==
    LET r == HandleToolCalls(
                <<[index |-> 0, id |-> "", name |-> "", arguments |-> text]>>,
                1, [buffer |-> <<>>, yielded |-> <<>>], 1)
    IN r.yielded[1].parts[1].args

\* Index i has received a whole argument text in fragments: some first
\* fragments for i, with no other argument text before them, make up a JSON
\* text, and the one finish signal of the stream is its last event.
WholeTextDelivered(i) ==
    /\ FinishPositions = {Len(events)}
    /\ \E n \in FragmentPositions(i) : IsJSON(ArgumentText(i, n))

FirstWholeText(i) ==
    ArgumentText(i, Min({n \in FragmentPositions(i) :
                            IsJSON(ArgumentText(i, n))}))

\* C6 (as claimed): when the argument text of one tool call is delivered in
\* N >= 1 fragments for its index, whatever other deltas for that index
\* follow before the finish signal, the yielded fragments hold exactly one
\* functionCall part for that index, its args those of the single delta.
C6_OneCallPerArgumentText ==
    streamPc = "done" =>
      \A i \in Indices :
        WholeTextDelivered(i) =>
          /\ Len(CallPartsFor(i)) = 1
          /\ CallPartsFor(i)[1].args = SingleDeltaArgs(FirstWholeText(i))

\* The deltas of index i are those of one tool call and nothing else: the
\* last of them is the fragment that completes the argument text, and no
\* finish signal arrives between the first and the last of them.
OnlyOneTextDelivered(i) ==
    LET deltas == DeltaPositions(i)
    IN /\ deltas # {}
       /\ events[Max(deltas)].tool_calls[1].arguments # <<>>
       /\ \A n \in FinishPositions : n < Min(deltas) \/ n > Max(deltas)
       /\ IsJSON(ArgumentText(i, Len(events)))

\* C6 (amended): when the deltas for an index are the N >= 1 fragments of one
\* argument text, with deltas without argument text before or between them
\* only, no finish signal among them and no delta for the index after the
\* last fragment, the yielded fragments hold exactly one functionCall part
\* for that index, its args those of the single delta. The events may end
\* after any of them, so the completed calls cover every prefix of a stream.
C6_OneCallWhenNothingFollows ==
    streamPc = "done" =>
      \A i \in Indices :
        OnlyOneTextDelivered(i) =>
          /\ Len(CallPartsFor(i)) = 1
          /\ CallPartsFor(i)[1].args
               = SingleDeltaArgs(ArgumentText(i, Len(events)))

C6_Witness ==
    /\ streamPc = "done"
    /\ \E i \in Indices :
         /\ OnlyOneTextDelivered(i)
         /\ Cardinality(FragmentPositions(i)) >= 2
         /\ FinishPositions = {Len(events)}
         /\ Len(CallPartsFor(i)) = 1

FinishFragments(y) == SelectSeq(y, LAMBDA f : f.finishReason # NoFinish)

\* C7 (as claimed): a streaming call that completes without a transport
\* error has yielded exactly one fragment carrying a finishReason, and that
\* fragment is the last one yielded, on the chat path and on the Responses
\* path.
C7_OneFinishFragmentLast ==
    streamPc = "done" =>
      /\ Len(FinishFragments(yielded)) = 1
      /\ yielded[Len(yielded)].finishReason # NoFinish

\* C8: a streamed chat call whose events end without any finish_reason still
\* yields a terminal fragment, with empty parts and finishReason STOP, and it
\* is the only fragment carrying a finishReason.
C8_TerminalStopSynthesized ==
    (streamPc = "done" /\ ~useResponsesApi /\ FinishPositions = {}) =>
      /\ yielded # <<>>
      /\ yielded[Len(yielded)].parts = <<>>
      /\ yielded[Len(yielded)].finishReason = "STOP"
      /\ Len(FinishFragments(yielded)) = 1

C8_Witness ==
    /\ streamPc = "done"
    /\ ~useResponsesApi
    /\ FinishPositions = {}
    /\ Len(events) >= 2
    /\ Len(yielded) >= 2
    /\ yielded[Len(yielded)].finishReason = "STOP"

\* The state of the loop after the events evs, from the empty buffer.
RECURSIVE RunEvents(_)
RunEvents(evs) ==
    IF evs = <<>>
    THEN [buffer |-> <<>>, sawFinish |-> FALSE, yielded |-> <<>>]
    ELSE HandleEvent(evs[Len(evs)], RunEvents(SubSeq(evs, 1, Len(evs) - 1)),
                     Len(evs))

\* C9 (as claimed): when a finish signal arrives, every entry still buffered
\* is emitted as a functionCall part of the fragment carrying the
\* finishReason and removed from the buffer, an entry whose text does not
\* parse with an empty arguments object.
C9_FinishFlushesEveryEntry ==
    (events # <<>> /\ events[Len(events)].finish # "") =>
      LET before == RunEvents(SubSeq(events, 1, Len(events) - 1)).buffer
          last == yielded[Len(yielded)]
      IN /\ toolCallsBuffer = <<>>
         /\ \A k \in DOMAIN before :
              \E j \in DOMAIN last.parts :
                /\ last.parts[j].kind = "functionCall"
                /\ last.parts[j].idx = before[k].idx
                /\ ~IsJSON(before[k].arguments)
                     => last.parts[j].args = EmptyObject


\* ------------------------------------------------------------------------
\* Properties of parseSSEStream

\* The complete lines among the bytes delivered so far.
DeliveredLines ==
    SplitLines(SubSeq(sseStream, 1, ssePos), 1,
               [lines |-> <<>>, rest |-> <<>>]).lines

IsSentinelLine(line) ==
    StartsWith(line, DataPrefix) /\ DataOf(line) = Sentinel

IsEventLine(line) ==
    StartsWith(line, DataPrefix) /\ PayloadParses(DataOf(line))

SentinelLines(lines) == {n \in DOMAIN lines : IsSentinelLine(lines[n])}

\* The payloads of the event lines among lines.
RECURSIVE EventsOf(_)
EventsOf(lines) ==
    IF lines = <<>> THEN <<>>
    ELSE (IF IsEventLine(Head(lines)) THEN <<DataOf(Head(lines))>> ELSE <<>>)
         \o EventsOf(Tail(lines))

\* C10: once a complete sentinel line has been read, the produced sequence
\* has ended and holds the events of the lines before that line only: the
\* data lines after it in the same chunk and the bytes of later chunks yield
\* nothing.
C10_NothingAfterSentinel ==
    LET lines == DeliveredLines
        first == Min(SentinelLines(lines))
    IN SentinelLines(lines) # {} =>
         /\ ssePc = "returned"
         /\ sseYielded = EventsOf(SubSeq(lines, 1, first - 1))

C10_Witness ==
    LET lines == DeliveredLines
        first == Min(SentinelLines(lines))
    IN /\ ssePc = "returned"
       /\ ssePos = Len(sseStream)
       /\ sseSkipped
       /\ sseLate
       /\ \E n \in DOMAIN lines : n > first /\ IsEventLine(lines[n])

\* ------------------------------------------------------------------------
\* Order of the streamed fragments

\* The fragments made from event n.
FragmentsOf(n) == SelectSeq(yielded, LAMBDA f : f.ev = n)

\* C11: the fragments are yielded in the order of their events (the
\* synthesized terminal fragment, made from no event, comes last), and each
\* event with a non-empty text delta has yielded exactly one text fragment,
\* carrying that text, as soon as the event is handled.
C11_FragmentsInEventOrder ==
    /\ \A i, j \in DOMAIN yielded :
         i < j => \/ yielded[j].ev = 0
                  \/ (yielded[i].ev # 0 /\ yielded[i].ev <= yielded[j].ev)
    /\ \A n \in DOMAIN events :
         events[n].content # "" =>
           /\ Len(SelectSeq(FragmentsOf(n),
                            LAMBDA f : \E k \in DOMAIN f.parts :
                                          f.parts[k].kind = "text")) = 1
           /\ FragmentsOf(n)[1].parts = <<TextPart(events[n].content)>>

C11_Witness ==
    /\ streamPc = "streaming"
    /\ \E i, j, k \in DOMAIN yielded :
         /\ i < j /\ j < k
         /\ yielded[i].parts # <<>> /\ yielded[i].parts[1].kind = "text"
         /\ yielded[j].parts # <<>> /\ yielded[j].parts[1].kind = "functionCall"
         /\ yielded[k].parts # <<>> /\ yielded[k].parts[1].kind = "text"
         /\ yielded[i].ev < yielded[j].ev /\ yielded[j].ev < yielded[k].ev
         /\ events[Len(events)].content # ""


\* ------------------------------------------------------------------------
\* Properties of generate

\* The requests issued by invocation a of generate.
RequestsOf(a) == SelectSeq(genRequests, LAMBDA r : r.attempt = a)

\* C12: with the Responses protocol selected and tools supplied, a Responses
\* output without tool-call item is followed by exactly one more request, to
\* the chat target with a chat body, and the response returned is the
\* conversion of the chat response.
C12_FallbackToChat ==
    (/\ genPc = "resolved"
     /\ genUseResponses
     /\ genTools
     /\ ~HasResponsesToolCalls(genPrimaryData)) =>
       /\ RequestsOf(genAttempt)
            = << Request(genAttempt, GetTargetURL(genBase, TRUE), "responses"),
                 Request(genAttempt, GetTargetURL(genBase, FALSE), "chat") >>
       /\ genChatData.kind = "chat"
       /\ genResult = ConvertFromOpenAIResponse(genChatData)

C12_Witness ==
    /\ genPc = "resolved"
    /\ genUseResponses
    /\ genTools
    /\ genPrimaryData.output # <<>>
    /\ ~HasResponsesToolCalls(genPrimaryData)
    /\ genChatData.tool_calls # <<>>
    /\ genResult # ConvertPrimary(genUseResponses, genPrimaryData)
    /\ GetTargetURL(genBase, FALSE) # GetTargetURL(genBase, TRUE)

\* C13 (as claimed): an invocation of generate issues a second request only
\* when the Responses protocol was used, the response has no tool-call item
\* and tools were supplied; in every other case it issues exactly one
\* request, and never more than two.
C13_FallbackOnlyWithTools ==
    \A a \in 1..genAttempt :
       /\ Len(RequestsOf(a)) \in {1, 2}
       /\ Len(RequestsOf(a)) = 2 => (genUseResponses /\ genTools)
       /\ (a = genAttempt /\ Len(RequestsOf(a)) = 2)
            => ~HasResponsesToolCalls(genPrimaryData)

\* C14: a call whose request failed with a timeout-classified error has
\* issued the request again before the failure reaches the caller, and the
\* number of attempts is bounded.
C14_TimeoutRetried ==
    /\ genAttempt <= MaxAttempts
    /\ genPc = "rejected" =>
         \A k \in DOMAIN genFailures :
            IsTimeoutError(genFailures[k].error) =>
               \/ genFailures[k].attempt < genAttempt
               \/ (genAttempt = MaxAttempts /\ genAttempt >= 2)

C14_Witness ==
    /\ genPc = "rejected"
    /\ IsTimeoutError(genError)
    /\ genError.code # "ETIMEDOUT"
    /\ genAttempt >= 2
    /\ IsTimeoutError(genFailures[1].error)

NonTransient4xx(e) ==
    /\ e.status >= 400 /\ e.status <= 499
    /\ ~IsTimeoutError(e)
    /\ ~IsTransientError(e)

\* C15: after a request has failed with a non-transient 4xx status no
\* further transport request is made for the call, and the error propagates
\* to the caller.
C15_ClientErrorNotRetried ==
    \A k \in DOMAIN genFailures :
       NonTransient4xx(genFailures[k].error) =>
          /\ Len(genRequests) = genFailures[k].requests
          /\ genPc \in {"threw", "rejected"}
          /\ genError = genFailures[k].error

C15_Witness ==
    /\ genPc = "rejected"
    /\ NonTransient4xx(genError)
    /\ genAttempt = 1
    /\ genAttempt < MaxAttempts
    /\ Len(genRequests) = 2

\* C16: the caller receives either one complete response or one error, never
\* both: when a request of the invocation fails, generate rejects with that
\* error and returns no response (the Responses result does not stand in for
\* a failed fallback); when it resolves, no request of the invocation failed
\* and the response is the whole conversion of the last response received.
C16_ResponseOrError ==
    /\ genPc \in {"threw", "rejected"} =>
         /\ genResult = NoResponse
         /\ genError # NoError
         /\ genFailures # <<>>
         /\ genFailures[Len(genFailures)]
              = [attempt |-> genAttempt, error |-> genError,
                 requests |-> Len(genRequests)]
    /\ genPc = "resolved" =>
         /\ genError = NoError
         /\ \A k \in DOMAIN genFailures : genFailures[k].attempt < genAttempt
         /\ genResult = (IF genChatData.kind = "chat"
                         THEN ConvertFromOpenAIResponse(genChatData)
                         ELSE ConvertPrimary(genUseResponses, genPrimaryData))
    /\ genPc \notin {"threw", "rejected", "resolved"} => genResult = NoResponse

C16_Witness ==
    /\ genPc = "rejected"
    /\ genPrimaryData.kind = "responses"
    /\ genPrimaryData.output # <<>>
    /\ Len(RequestsOf(genAttempt)) = 2
    /\ genResult = NoResponse

\* The chat response the returned response was converted from.
ConvertedChatData ==
    IF genChatData.kind = "chat" THEN genChatData ELSE genPrimaryData

\* C17: a chat finish_reason of stop gives STOP, length MAX_TOKENS,
\* tool_calls or function_call STOP, any other non-empty string OTHER, an
\* absent one no finishReason; the streaming path maps every non-empty
\* finish_reason the same way; a Responses conversion carries STOP.
C17_FinishReasonMapping ==
    genPc = "resolved" =>
      IF ConvertedChatData.kind = "chat"
      THEN LET fr == ConvertedChatData.finish_reason IN
           /\ genResult.finishReason =
                (CASE fr = "stop" -> "STOP"
                   [] fr = "length" -> "MAX_TOKENS"
                   [] fr \in {"tool_calls", "function_call"} -> "STOP"
                   [] fr = "" -> NoFinish
                   [] OTHER -> "OTHER")
           /\ fr # "" => genResult.finishReason = MapFinishReason(fr)
      ELSE genResult.finishReason = "STOP"

C17_Witness ==
    /\ genPc = "resolved"
    /\ ConvertedChatData.kind = "chat"
    /\ ConvertedChatData.finish_reason = "function_call"
    /\ genResult.finishReason = "STOP"


\* ------------------------------------------------------------------------
\* Properties of buildCurlCommand

\* The header map with the credential key replaced by other.
WithKey(entries, key, other) ==
    [i \in DOMAIN entries |->
       IF entries[i].v.cred = key
       THEN [entries[i] EXCEPT !.v.cred = other] ELSE entries[i]]

\* The credential occurs in the command.
Leaks(cmd, key) ==
    \E i \in DOMAIN cmd.headerLines : cmd.headerLines[i].v.cred = key

\* C18 (as claimed): the command returned never holds the credential,
\* whatever the header map and the casing of its names, and two inputs that
\* differ in the credential only give the same command.
C18_CredentialNeverInCommand ==
    curlPc = "done" =>
      /\ ~Leaks(curlOut, curlKey)
      /\ \A other \in ApiKeys :
           BuildCurlCommand(curlUrl,
                            [common |-> WithKey(curlHeaders.common, curlKey, other),
                             own |-> WithKey(curlHeaders.own, curlKey, other)],
                            curlBody) = curlOut


\* ------------------------------------------------------------------------
\* Properties of concurrent streaming calls

\* C19: two streaming calls on the same provider do not interfere: however
\* their events are interleaved, each call has yielded exactly the fragments
\* it yields when it receives the same events alone (from an empty buffer
\* and an unset finish flag), the synthesized terminal fragment included once
\* its stream has ended.
C19_CallsDoNotInterfere ==
    \A c \in Calls :
      LET alone == RunEvents(concEvents[c])
      IN concYielded[c] =
           alone.yielded
           \o (IF concPc[c] = "done" THEN SynthTerminal(alone.sawFinish)
               ELSE <<>>)

\* Both calls have ended, each has yielded a function call, and one of them
\* received a tool-call delta while the other held a buffered entry.
C19_Witness ==
    /\ concOverlap
    /\ \A c \in Calls :
         /\ concPc[c] = "done"
         /\ \E i \in DOMAIN concYielded[c] :
              \E j \in DOMAIN concYielded[c][i].parts :
                concYielded[c][i].parts[j].kind = "functionCall"


\* ------------------------------------------------------------------------
\* Properties of buildResponsesInputFromMessages

\* The message gives the input nothing: a chat message whose text is blank
\* and which carries no tool call, or a tool message without a call id.
YieldsNothing(m) ==
    /\ m.role \in ChatRoles =>
         (\A i \in DOMAIN m.content : m.content[i] = " ") /\ m.tool_calls = <<>>
    /\ m.role = "tool" => m.tool_call_id = ""

\* C20: buildResponsesInputFromMessages never returns an empty input, and
\* when no message gives the input anything the result is exactly one user
\* entry whose content is a single empty input_text.
C20_InputNeverEmpty ==
    inputPc = "done" =>
      /\ Len(input) >= 1
      /\ (\A i \in DOMAIN messages : YieldsNothing(messages[i])) =>
           /\ Len(input) = 1
           /\ input[1].type = "message"
           /\ input[1].role = "user"
           /\ input[1].content = <<[type |-> "input_text", text |-> <<>>]>>

\* Two messages were handed in, a blank user message and a tool message
\* without a call id, and the function has returned.
C20_Witness ==
    /\ inputPc = "done"
    /\ Len(messages) = 2
    /\ messages[1].role = "user" /\ messages[1].content = <<" ">>
    /\ messages[2].role = "tool" /\ messages[2].tool_call_id = ""
    /\ Len(input) = 1


\* ------------------------------------------------------------------------
\* Properties of the request bodies

\* C21 (as claimed): when the caller gives no maximum output token count,
\* the Responses body carries max_output_tokens and the Chat body carries
\* max_tokens equal to the default constant.
C21_BothBodiesCarryDefault ==
    ~reqConfig.maxOutputTokens.defined =>
      /\ responsesBody # NoBody =>
           responsesBody.max_output_tokens = Num(DEFAULT_MAX_OUTPUT_TOKENS)
      /\ chatBody # NoBody =>
           chatBody.max_tokens = Num(DEFAULT_MAX_OUTPUT_TOKENS)

\* C21 (amended): the Responses body always carries max_output_tokens, the
\* caller's count when one is given (0 included) and the default constant
\* otherwise; the Chat body carries the caller's count as max_tokens and
\* leaves the field undefined when the caller gives none.
C21_ResponsesDefaultsChatPassesOn ==
    /\ responsesBody # NoBody =>
         /\ responsesBody.max_output_tokens.defined
         /\ responsesBody.max_output_tokens.value =
              (IF reqConfig.maxOutputTokens.defined
               THEN reqConfig.maxOutputTokens.value
               ELSE DEFAULT_MAX_OUTPUT_TOKENS)
    /\ chatBody # NoBody =>
         chatBody.max_tokens = reqConfig.maxOutputTokens

\* Both bodies were built for a caller that gave no count.
C21_Witness ==
    /\ ~reqConfig.maxOutputTokens.defined
    /\ responsesBody # NoBody
    /\ chatBody # NoBody


\* ------------------------------------------------------------------------
\* Properties of the usage accounting

\* The field holds a value.
Present(v) == v.type \notin {"undefined", "null"}

\* The count a present field stands for: a finite number is itself, a
\* numeric string its number, anything else 0.
CountOf(v) ==
    IF v.type = "number" THEN v.n
    ELSE IF v.type = "string"
            /\ \A i \in DOMAIN v.chars : v.chars[i] \in {"0", "1", "2"}
         THEN Decimal(v.chars)
         ELSE 0

\* The count read from the legacy field when present, else from the
\* alternate field, else 0.
CountRead(legacy, alternate) ==
    IF Present(legacy) THEN CountOf(legacy)
    ELSE IF Present(alternate) THEN CountOf(alternate) ELSE 0

\* C22: usage accounting of convertFromResponsesApi. The prompt and output
\* counts are read from the *_token_count field when present, else from the
\* *_tokens field, else 0, numeric strings coerced and non-finite values
\* counted as 0; totalTokenCount is the total field when one is present and
\* the sum of the two counts otherwise; usageMetadata is absent when the
\* response has no usage object.
C22_UsageAccounting ==
    usagePc = "done" =>
      IF ~usageRaw.present THEN ~usageMetadata.defined
      ELSE /\ usageMetadata.defined
           /\ usageMetadata.promptTokenCount =
                CountRead(usageRaw.input_token_count, usageRaw.input_tokens)
           /\ usageMetadata.candidatesTokenCount =
                CountRead(usageRaw.output_token_count, usageRaw.output_tokens)
           /\ usageMetadata.totalTokenCount =
                (IF Present(usageRaw.total_token_count)
                    \/ Present(usageRaw.total_tokens)
                 THEN CountRead(usageRaw.total_token_count,
                                usageRaw.total_tokens)
                 ELSE usageMetadata.promptTokenCount
                      + usageMetadata.candidatesTokenCount)

\* The response of the repository's own test: input_tokens the string of a
\* number, output_tokens a number, no total field; the total is the sum.
C22_Witness ==
    /\ usagePc = "done"
    /\ usageRaw.present
    /\ usageRaw.input_token_count.type = "undefined"
    /\ usageRaw.input_tokens = StringValue(<<"1", "2">>)
    /\ usageRaw.output_token_count.type = "undefined"
    /\ usageRaw.output_tokens = NumberValue(1)
    /\ usageRaw.total_token_count.type = "undefined"
    /\ usageRaw.total_tokens.type = "undefined"
    /\ usageMetadata.totalTokenCount = 13


\* ------------------------------------------------------------------------
\* Properties of the /hist subcommands

\* The history h without its entries a..b (1-based, inclusive), the others
\* in their order.
Without(h, a, b) == SubSeq(h, 1, a - 1) \o SubSeq(h, b + 1, Len(h))

\* The subcommand name ran with the text args.
Ran(name, args) == histCommand = [name |-> name, args |-> args]

\* C23: each delete subcommand, given valid indices on a history of length
\* L, calls setHistory once, with the history minus exactly the designated
\* 1-based inclusive range, the remaining entries in their original order:
\* del n removes n; del-after n removes n..L; del-last n removes L-n+1..L;
\* del-range m,n removes m..n; del-before n removes 1..n.
C23_DeleteRemovesRange ==
    LET L == Len(history)
    IN chat =>
         /\ \A n \in 1..L :
              /\ Ran("del", DecimalChars(n)) =>
                   setHistoryCalls = <<Without(history, n, n)>>
              /\ Ran("del-after", DecimalChars(n)) =>
                   setHistoryCalls = <<Without(history, n, L)>>
              /\ Ran("del-last", DecimalChars(n)) =>
                   setHistoryCalls = <<Without(history, L - n + 1, L)>>
              /\ Ran("del-before", DecimalChars(n)) =>
                   setHistoryCalls = <<Without(history, 1, n)>>
         /\ \A m, n \in 1..L :
              (m <= n /\ Ran("del-range",
                             DecimalChars(m) \o <<",">> \o DecimalChars(n))) =>
                setHistoryCalls = <<Without(history, m, n)>>

\* del-range 2,3 ran on a history of five entries and handed setHistory the
\* first, fourth and fifth.
C23_Witness ==
    /\ Len(history) = 5
    /\ Ran("del-range", <<"2", ",", "3">>)
    /\ Len(setHistoryCalls) = 1
    /\ [i \in 1..3 |-> setHistoryCalls[1][i].id] = <<1, 4, 5>>

\* The lines of the entries lo..hi (1-based) of the history, each under its
\* own index.
LinesOf(lo, hi) ==
    [k \in 1..(hi - lo + 1) |->
        FormatHistoryLine(lo + k - 1, history[lo + k - 1])]

\* C24: on a history of length L >= 1, for 1 <= n <= L, /hist la n lists
\* exactly the entries max(1, n-2)..min(L, n+2), in order, each labelled
\* with its index in the full history; /hist ll n lists exactly the last
\* min(n, L) entries with their indices in the full history.
C24_ListsTheWindow ==
    LET L == Len(history)
    IN (chat /\ L >= 1) =>
         /\ \A n \in 1..L :
              Ran("la", DecimalChars(n)) =>
                addItemCalls = LinesOf(IF n - 2 > 1 THEN n - 2 ELSE 1,
                                       IF n + 2 < L THEN n + 2 ELSE L)
         /\ \A n \in 1..(MaxHistory + 1) :
              Ran("ll", DecimalChars(n)) =>
                addItemCalls = LinesOf(L - (IF n < L THEN n ELSE L) + 1, L)

\* la 3 ran on a history of five entries and listed all five.
C24_Witness ==
    /\ Len(history) = 5
    /\ Ran("la", <<"3">>)
    /\ Len(addItemCalls) = 5

\* The text ends with the marker.
EndsWithMarker(t) ==
    /\ TextLength(t) >= TextLength(Marker)
    /\ SliceFrom(t, TextLength(t) - TextLength(Marker)) = Marker

\* C25 (as claimed): every line the listing subcommands emit has at most
\* 2000 characters: a line of at most 2000 characters is emitted unchanged,
\* and a longer one is cut so that the emitted text has exactly 2000
\* characters and ends with the marker.
C25_LinesAtMost2000 ==
    \A i \in DOMAIN addItemCalls :
      /\ TextLength(addItemCalls[i]) <= 2000
      /\ \E k \in DOMAIN history :
           LET line == LineOf(k, history[k])
           IN IF TextLength(line) <= 2000
              THEN addItemCalls[i] = line
              ELSE /\ TextLength(addItemCalls[i]) = 2000
                   /\ EndsWithMarker(addItemCalls[i])


\* ------------------------------------------------------------------------
\* Properties of the debug logger

\* The console calls and the stream writes made for call i.
ConsoleCallsOf(i) == SelectSeq(consoleCalls, LAMBDA c : c.call = i)
StreamWritesOf(i) == SelectSeq(streamWrites, LAMBDA w : w.call = i)

\* The console method of the level's name.
MatchingMethod ==
    [LOG |-> "log", WARN |-> "warn", ERROR |-> "error", DEBUG |-> "debug"]

\* The creation of the stream failed during call i.
CreationFailedIn(i) ==
    \E k \in DOMAIN createCalls :
      createCalls[k].call = i /\ ~createCalls[k].ok

\* A stream emitted 'error' after the last reset before call i and before
\* the call, or the creation failed between that reset and the call.
FailedSinceReset(i) ==
    \/ \E e \in DOMAIN streamErrors :
         /\ streamErrors[e].resets = logCalls[i].resets
         /\ streamErrors[e].calls < i
    \/ \E k \in DOMAIN createCalls :
         /\ createCalls[k].resets = logCalls[i].resets
         /\ createCalls[k].call < i
         /\ ~createCalls[k].ok

\* C26: every call of log/warn/error/debug delivers its message to exactly
\* one sink: the file stream when DEBUG is enabled and a stream is there,
\* otherwise the console method of its level. This holds for every sequence
\* of calls: the call during which the creation of the stream fails goes to
\* the console, and so do the calls after a stream error.
C26_ExactlyOneSink ==
    \A i \in DOMAIN logCalls :
      LET c == ConsoleCallsOf(i)
          w == StreamWritesOf(i)
          toConsole == ~debugEnabled \/ CreationFailedIn(i)
                       \/ FailedSinceReset(i)
      IN /\ Len(c) + Len(w) = 1
         /\ toConsole <=> Len(c) = 1
         /\ Len(c) = 1 => c[1].method = MatchingMethod[logCalls[i].level]
         /\ Len(w) = 1 => w[1].level = logCalls[i].level

\* One call was written to the stream, one went to the console after the
\* stream's error, and one went to the console as the creation failed.
C26_Witness ==
    /\ debugEnabled
    /\ Len(logCalls) = 3
    /\ Len(StreamWritesOf(1)) = 1
    /\ Len(streamErrors) = 1 /\ streamErrors[1].calls = 1
    /\ Len(ConsoleCallsOf(2)) = 1
    /\ CreationFailedIn(3)
    /\ Len(ConsoleCallsOf(3)) = 1

\* C27: the stream is created lazily and at most once: none exists before
\* the first log call with DEBUG enabled; later calls reuse the stream
\* created; once the creation failed or the stream emitted 'error', no
\* creation is attempted until closeStreamForTests resets the logger; with
\* DEBUG disabled no stream is ever created.
C27_StreamCreatedLazilyOnce ==
    /\ ~debugEnabled => (createCalls = <<>> /\ logStream = NoStream)
    /\ logCalls = <<>> => (createCalls = <<>> /\ logStream = NoStream)
    /\ \A a, b \in DOMAIN createCalls :
         a # b => createCalls[a].resets # createCalls[b].resets
    /\ \A k \in DOMAIN createCalls : ~FailedSinceReset(createCalls[k].call)
    /\ \A j \in DOMAIN streamWrites :
         \E k \in DOMAIN createCalls :
           /\ createCalls[k].ok
           /\ createCalls[k].stream = streamWrites[j].stream
           /\ createCalls[k].resets = logCalls[streamWrites[j].call].resets

\* Two calls wrote to the stream the first of them created; after a reset a
\* third call created a second stream.
C27_Witness ==
    /\ Len(streamWrites) = 3
    /\ streamWrites[1].stream = 1
    /\ streamWrites[2].stream = 1
    /\ streamWrites[3].stream = 2
    /\ Len(createCalls) = 2
    /\ resets = 1


\* ------------------------------------------------------------------------
\* Further properties of toOpenAIMessages

\* C28 (as claimed): in the returned sequence no assistant tool-call entry
\* remains whose id is not the tool_call_id of some tool message, also when
\* the input holds tool results with unknown ids, which are recorded as used
\* before their messages are pruned.
C28_NoCallWithoutResult ==
    (normPc = "done" /\ CallsByModel(list)) =>
      LET calls == OutCalls(out)
          tools == OutToolMsgs(out)
      IN \A k \in DOMAIN calls :
           \E i \in DOMAIN tools : tools[i].tool_call_id = calls[k].id

\* The turn is not the model's, has text and has a tool result.
TextWithResult(c) ==
    /\ MapRole(c.role) # "assistant"
    /\ JoinText(c.parts) # ""
    /\ HasFunctionResponse(c.parts)

\* C29 (as claimed): for every non-assistant turn with non-empty text and at
\* least one tool result, the returned sequence holds no standalone text
\* message of the turn (its user and system messages are as many as the
\* non-assistant turns with text and without a tool result), and holds the
\* turn's text as the extra_text of a tool message made from that turn.
C29_TextFoldedIntoToolMessage ==
    (normPc = "done" /\ CallsByModel(list)) =>
      /\ Len(SelectSeq(out, LAMBDA m : m.role \notin {"assistant", "tool"}))
           = Cardinality({t \in DOMAIN list :
                            /\ MapRole(list[t].role) # "assistant"
                            /\ JoinText(list[t].parts) # ""
                            /\ ~HasFunctionResponse(list[t].parts)})
      /\ \A t \in DOMAIN list :
           TextWithResult(list[t]) =>
             \E i \in DOMAIN out :
               /\ out[i].role = "tool"
               /\ out[i].src[1] = t
               /\ out[i].extra_text = JoinText(list[t].parts)

\* C30 (as claimed): every assistant message of the returned sequence has
\* non-empty content or at least one tool call.
C30_NoEmptyAssistantMessage ==
    (normPc = "done" /\ CallsByModel(list)) =>
      \A i \in DOMAIN out :
        out[i].role = "assistant" =>
          (out[i].content # "" \/ Len(out[i].tool_calls) > 0)


\* ------------------------------------------------------------------------
\* Accumulation per positional index

\* The id and the name received for index i: those of the last delta for i
\* that carries one ("" when none does).
IdReceived(i) ==
    LET S == {n \in DeltaPositions(i) : events[n].tool_calls[1].id # ""}
    IN IF S = {} THEN "" ELSE events[Max(S)].tool_calls[1].id

NameReceived(i) ==
    LET S == {n \in DeltaPositions(i) : events[n].tool_calls[1].name # ""}
    IN IF S = {} THEN "" ELSE events[Max(S)].tool_calls[1].name

\* The deltas of the two indices are interleaved: a delta of one index lies
\* between two deltas of the other.
Interleaved ==
    \E i, j \in Indices :
      /\ i # j
      /\ \E a, c \in DeltaPositions(i) :
           \E b \in DeltaPositions(j) : a < b /\ b < c

\* C31: tool-call deltas are accumulated per positional index. Whatever
\* deltas arrive for the other index and in whatever order the two are
\* interleaved, an index whose deltas are those of one tool call yields one
\* functionCall part, carrying the id and the name received for that index
\* ('tool' when no name was received) and, as its args, the concatenation in
\* arrival order of the argument fragments received for that index, with no
\* fragment of the other index. The events may end after any of them, so the
\* completed calls cover every prefix of a stream.
C31_AccumulatedPerIndex ==
    streamPc = "done" =>
      \A i \in Indices :
        OnlyOneTextDelivered(i) =>
          LET calls == CallPartsFor(i)
          IN /\ Len(calls) = 1
             /\ calls[1].id = IdReceived(i)
             /\ calls[1].name = NameOrTool(NameReceived(i))
             /\ calls[1].args = JSONParse(ArgumentText(i, Len(events)))

C31_Witness ==
    /\ streamPc = "done"
    /\ Interleaved
    /\ \A i \in Indices :
         /\ OnlyOneTextDelivered(i)
         /\ Cardinality(FragmentPositions(i)) >= 2
         /\ Len(CallPartsFor(i)) = 1
         /\ CallPartsFor(i)[1].args = <<"{", "}">>


\* ------------------------------------------------------------------------
\* Tool calls at the end of the stream

\* C32 (as claimed): when a streamed chat call completes, every index for
\* which at least one delta was received has been emitted as a functionCall
\* part of some fragment, whether the events ended after a finish signal or
\* without one (on the sentinel or at the end of the bytes): no buffered
\* entry is discarded.
C32_EveryToolCallEmitted ==
    (streamPc = "done" /\ ~useResponsesApi) =>
      \A i \in Indices :
        DeltaPositions(i) # {} => Len(CallPartsFor(i)) >= 1


\* ------------------------------------------------------------------------
\* Malformed lines in parseSSEStream

\* The lines up to the first sentinel line (all of them when there is none).
BeforeSentinel(lines) ==
    IF SentinelLines(lines) = {} THEN lines
    ELSE SubSeq(lines, 1, Min(SentinelLines(lines)) - 1)

IsMalformedLine(line) ==
    /\ StartsWith(line, DataPrefix)
    /\ DataOf(line) # Sentinel
    /\ ~PayloadParses(DataOf(line))

\* C33: a data line whose payload is not JSON is skipped without ending the
\* sequence and without an error. At every moment the events produced are
\* those of the well-formed data lines read so far before the sentinel, one
\* event per line and in line order, whether a malformed line stands before
\* or after them; lines without the prefix yield nothing; and as long as no
\* sentinel line was read the generator goes on reading until the bytes are
\* exhausted.
C33_MalformedLineSkipped ==
    LET lines == DeliveredLines
    IN /\ sseYielded = EventsOf(BeforeSentinel(lines))
       /\ SentinelLines(lines) = {} =>
            /\ ssePc # "returned"
            /\ ssePc = "ended" => ssePos = Len(sseStream)

C33_Witness ==
    LET lines == DeliveredLines
    IN /\ ssePc = "reading"
       /\ Len(lines) = 2
       /\ IsMalformedLine(lines[1])
       /\ IsEventLine(lines[2])
       /\ sseYielded = <<DataOf(lines[2])>>


\* ------------------------------------------------------------------------
\* Chunk boundaries in parseSSEStream

\* The complete lines of the whole stream, decoded in one piece: what the
\* generator reads when the transport delivers the stream as one chunk.
WholeLines ==
    SplitLines(ChunkToString(sseStream), 1, [lines |-> <<>>, rest |-> <<>>]).lines

\* C34 (as claimed): the events produced depend on the concatenation of the
\* chunks only. Wherever the chunk boundaries fall, once the generator has
\* finished (on the sentinel or at the end of the bytes) the events produced
\* are those of the newline-terminated well-formed data lines of the stream
\* before the sentinel, which are the events of the stream delivered as one
\* chunk; so any two ways of cutting the stream produce equal sequences.
C34_EventsIndependentOfChunks ==
    ssePc \in {"returned", "ended"} =>
      sseYielded = EventsOf(BeforeSentinel(WholeLines))


\* ------------------------------------------------------------------------
\* The fallback test and the Responses adapter

FunctionCallParts(parts) == SelectSeq(parts, LAMBDA p : p.kind = "functionCall")

\* C35: the router's fallback test and the Responses adapter agree on what a
\* tool-call item is. For every Responses output, hasResponsesToolCalls
\* returns true exactly when convertFromResponsesApi of the same data
\* produces at least one functionCall part, for items at the top level and
\* for items in the content of a message item.
C35_ScansAgree ==
    scanDone = {"has", "convert"} =>
      (scanHas <=> FunctionCallParts(scanParts) # <<>>)

C35_Witness ==
    /\ scanDone = {"has", "convert"}
    /\ scanHas
    /\ \A i \in DOMAIN scanData.output : scanData.output[i].type = "message"
    /\ Len(FunctionCallParts(scanParts)) = 1


\* ------------------------------------------------------------------------
\* The tool-calling structure through buildResponsesInputFromMessages

\* The tool calls and the tool results of the messages, in order: each tool
\* call of a message, and each tool message that has an id.
RECURSIVE ToolStructureOfMessages(_)
ToolStructureOfMessages(ms) ==
    IF ms = <<>> THEN <<>>
    ELSE LET m == Head(ms)
             here ==
               IF m.role = "tool"
               THEN IF m.tool_call_id # ""
                    THEN <<[kind |-> "result", id |-> m.tool_call_id]>>
                    ELSE <<>>
               ELSE [i \in DOMAIN m.tool_calls |->
                       [kind |-> "call", id |-> m.tool_calls[i].id]]
         IN here \o ToolStructureOfMessages(Tail(ms))

\* The function_call and function_call_output entries of the input, in order.
RECURSIVE ToolStructureOfInput(_)
ToolStructureOfInput(es) ==
    IF es = <<>> THEN <<>>
    ELSE LET e == Head(es)
             here ==
               IF e.type = "function_call"
               THEN <<[kind |-> "call", id |-> e.call_id]>>
               ELSE IF e.type = "function_call_output"
               THEN <<[kind |-> "result", id |-> e.call_id]>>
               ELSE <<>>
         IN here \o ToolStructureOfInput(Tail(es))

\* Every call has a result and every result a call.
Paired(structure) ==
    {structure[i].id : i \in {j \in DOMAIN structure :
                                 structure[j].kind = "call"}}
      = {structure[i].id : i \in {j \in DOMAIN structure :
                                    structure[j].kind = "result"}}

\* C36: buildResponsesInputFromMessages preserves the tool-calling structure.
\* The input holds one function_call entry per tool call and one
\* function_call_output entry per tool message with a non-empty id, with the
\* same ids and in the same relative order as in the messages; the textual
\* entries are typed output_text for assistant messages and input_text
\* otherwise; so messages in which calls and results are paired give an
\* input in which they are paired.
C36_ToolStructurePreserved ==
    inputPc = "done" =>
      /\ ToolStructureOfInput(input) = ToolStructureOfMessages(messages)
      /\ \A i \in DOMAIN input :
           input[i].type = "message" =>
             /\ Len(input[i].content) = 1
             /\ input[i].content[1].type
                  = (IF input[i].role = "assistant" THEN "output_text"
                     ELSE "input_text")
      /\ Paired(ToolStructureOfMessages(messages))
           => Paired(ToolStructureOfInput(input))

C36_Witness ==
    /\ inputPc = "done"
    /\ Len(messages) = 2
    /\ messages[1].role = "assistant"
    /\ Len(messages[1].tool_calls) = 2
    /\ Len(Trim(messages[1].content)) > 0
    /\ messages[2].role = "tool" /\ messages[2].tool_call_id = "c1"
    /\ ToolStructureOfInput(input)
         = <<[kind |-> "call", id |-> "c2"], [kind |-> "call", id |-> "c1"],
             [kind |-> "result", id |-> "c1"]>>
    /\ input[1].content[1].type = "output_text"


\* ------------------------------------------------------------------------
\* tool_choice in the request bodies

\* The body carries a non-empty tools array.
HasTools(body) == body.tools.defined /\ Len(body.tools.fns) > 0

\* C37 (as claimed): a request body carries tool_choice only together with a
\* non-empty tools array. When no tools were supplied, tool_choice is left
\* out of the Chat body and of the Responses body even when the
\* preferred-tool heuristic named a tool; when tools are supplied and the
\* heuristic names a tool, tool_choice forces that function.
C37_ToolChoiceOnlyWithTools ==
    \A body \in {chatBody, responsesBody} :
      body # NoBody =>
        /\ body.tool_choice # "" => HasTools(body)
        /\ (HasTools(body) /\ preferToolName # "")
             => body.tool_choice = preferToolName


\* ------------------------------------------------------------------------
\* The credential and the logger

\* What the same run hands to the logger when the configured key is key.
LoggedWithKey(key) ==
    LET h == ResolveHeaders(reqConfigHeaders, key)
    IN (IF reqPc = "start" THEN <<>> ELSE RequestLog(reqUrl, h, reqBody))
       \o (IF reqPc = "responded" THEN ResponseLog
           ELSE IF reqPc = "failed"
           THEN ErrorLog(reqError, reqUrl, h, reqBody)
           ELSE <<>>)

\* The text carries the credential.
TextLeaks(t, key) ==
    \/ \E i \in DOMAIN t.headers.common : t.headers.common[i].v.cred = key
    \/ \E i \in DOMAIN t.headers.own : t.headers.own[i].v.cred = key
    \/ (t.curl # NoCommand /\ Leaks(t.curl, key))

\* C38 (as claimed): no text handed to the logger during a request or its
\* error handling depends on the credential. The texts hold the key nowhere
\* (the request headers are logged with the Authorization value masked), and
\* a run that differs in the configured API key only hands the same texts to
\* the logger.
C38_LoggedTextsHideCredential ==
    /\ \A i \in DOMAIN reqLogged : ~TextLeaks(reqLogged[i], reqKey)
    /\ \A other \in ApiKeys : LoggedWithKey(other) = reqLogged


\* ------------------------------------------------------------------------
\* What the /hist subcommands leave alone

DeleteSubcommands == {"del", "del-after", "del-last", "del-range", "del-before"}
ListSubcommands == {"listall", "ll", "la"}

\* The conversation history after the subcommand: the one handed to the last
\* setHistory, the history as it was when there was none.
HistoryAfter ==
    IF setHistoryCalls = <<>> THEN history
    ELSE setHistoryCalls[Len(setHistoryCalls)]

\* C39: when a /hist subcommand returns an error message (missing,
\* non-numeric or non-positive index, index greater than the length of the
\* history, malformed or inverted range, no chat client), setHistory was not
\* called and the history is as it was; a delete subcommand that succeeds
\* has called setHistory exactly once; a listing subcommand never calls it.
C39_ErrorsLeaveHistoryAlone ==
    histCommand # NoCommandRun =>
      /\ histReturn.messageType = "error" =>
           setHistoryCalls = <<>> /\ HistoryAfter = history
      /\ (histCommand.name \in DeleteSubcommands
            /\ histReturn.messageType # "error")
           => Len(setHistoryCalls) = 1
      /\ histCommand.name \in ListSubcommands => setHistoryCalls = <<>>

C39_Witness ==
    /\ chat
    /\ Len(history) = 2
    /\ Ran("del-after", <<"3">>)
    /\ histReturn = InvalidIndexReturn.return
    /\ setHistoryCalls = <<>>

====
